---- MODULE Spec2Model ----
(***************************************************************************)
(* The data-access layer of the CocoPan monitor: class DatabaseManager of  *)
(* src/database_fixed.py.  One main thread constructs the manager          *)
(* (__init__ / _initialize_database), then caller threads run the public   *)
(* read and write operations concurrently, each through get_connection.    *)
(* The storage engines are the environment: each is reachable or not, and  *)
(* that may change between any two steps of the program.                   *)
(***************************************************************************)
EXTENDS Integers, Sequences, FiniteSets, TLC

\* ---------------------------------------------------------------- bounds

\* caller threads modelled step by step
NumProcs == 2
\* rows the callers may add to status_checks / summary_reports
MaxChecks == 2
MaxReports == 1
\* values the primary engine's SERIAL sequence of stores.id may hand out
MaxSeq == 2
\* rows of status_checks in the populated database the reads are checked on
\* (summary_reports: two less)
MaxRows == 4
\* the instants the clock shows, in hours since midnight UTC of day 0: 17:00
\* of day 0, then 02:00, 09:00 and 17:00 of day 1
Instants == {17, 26, 33, 41}
\* the time zones the primary engine's sessions may run in: UTC, Asia/Manila
SessionOffsets == {0, 8}

\* ------------------------------------------------------ program constants

\* DatabaseManager.__init__: self.max_retries = 3
max_retries == 3
\* ThreadedConnectionPool(minconn=1, maxconn=20, dsn=db_url)
maxconn == 20
\* save_status_check: len(error_message) > 500, error_message[:500]
error_limit == 500
\* def get_store_logs(self, limit: int = 50)
default_limit == 50
\* AT TIME ZONE 'Asia/Manila': Philippine time is UTC+8 the year round
manila_offset == 8
\* DATE(checked_at, '+8 hours')
shift_hours == 8

Procs == 1..NumProcs
Engines == {"postgresql", "sqlite"}

\* Python values an argument may carry
PyNone == [none |-> TRUE]
PyInt(n) == [int |-> n]
PyStr(s) == [str |-> s]
\* a float, as the exact ratio num/den of two integers, den > 0
PyFloat(n, d) == [float |-> [num |-> n, den |-> d]]

\* the urls and names the callers pass; a url is the sequence of its pieces
StoreArgs == { <<"Cocopan A", <<"foodpanda", ".ph", "/coco-a">> >>,
               <<"Cocopan B", <<"foodpanda", ".ph", "/coco-a">> >>,
               <<"Cocopan B", <<"food.grab", ".com", "/coco-b">> >> }
\* store_id, is_online, response_time_ms, error_message
CheckArgs == { <<1, TRUE, PyInt(150), PyNone>>,
               <<2, FALSE, PyNone, PyNone>>,
               <<1, TRUE, PyStr("abc"), PyNone>> }
SummaryArgs == { <<PyInt(0), PyInt(0), PyInt(0)>>,
                 <<PyInt(2), PyInt(1), PyInt(1)>>,
                 <<PyNone, PyInt(1), PyInt(0)>> }

\* lengths of the error messages the callers pass beside None: the empty
\* message, a short one, and the lengths around the limit of 500
MsgLens == {0, 3, 500, 501, 503, 504}
\* a message of n characters, no two of them alike
Text(n) == [i \in 1..n |-> i]

\* arguments at the edges of the three write operations
EdgeStoreArgs == { <<"Cocopan A", <<"www.", "foodpanda", ".ph", "/coco-a">> >>,
                   <<"Cocopan foodpanda.ph", <<"food.grab", ".com", "/coco-b">> >>,
                   <<"Cocopan C", <<"foodpanda", ".com", "/coco.ph">> >>,
                   <<"Cocopan D", <<"FoodPanda", ".ph", "/coco-d">> >> }
EdgeCheckArgs == { <<1, FALSE, PyInt(150), PyStr(Text(n))>> : n \in MsgLens }
                 \cup { <<1, TRUE, PyNone, PyNone>> }
EdgeSummaryArgs == { <<PyInt(0), PyInt(0), PyInt(0)>>,
                     <<PyInt(10), PyInt(7), PyInt(3)>>,
                     <<PyInt(3), PyInt(1), PyInt(1)>>,
                     <<PyInt(3), PyInt(1), PyInt(2)>> }

WriteOps == {"get_or_create_store", "save_status_check", "save_summary_report"}
ReadOps == {"get_latest_status", "get_hourly_data", "get_store_logs",
            "get_daily_uptime", "get_database_stats"}

VARIABLES
  \* configuration (config.USE_SQLITE, config.DATABASE_URL's scheme)
  use_sqlite, url_valid,
  \* environment: which engine is reachable / writable right now
  up,
  \* DatabaseManager fields
  db_type, connection_pool, sqlite_path_set,
  \* construction: position of the main thread, loop counter
  ipc, init_attempt,
  \* every ThreadedConnectionPool ever constructed, and those closed
  pools_created, pools_closed,
  \* the current pool's checked-out connections; connections held by callers
  \* that are not modelled step by step; open sqlite connections
  pool_used, others, sqlite_open,
  \* the active engine's tables and the stores.id sequence
  schema, stores, status_checks, summary_reports, stores_seq,
  \* caller threads: position, operation and arguments, loop counter
  pc, op, attempt,
  \* get_connection's local conn, whether its probe passed, statements the
  \* body has run in the scope, the open transaction's uncommitted row
  conn, probed, stmts, pending,
  \* what the last operation gave its caller
  result,
  \* observation: releases and rollbacks of the operation's latest scope,
  \* whether the engine (unreachable, lock wait timed out, pool exhausted)
  \* failed an attempt of the operation
  released, rolled_back, raised, faulted,
  \* the process: how the last close() ended, and the rows the database held
  \* when this process started on what an earlier process left (-1: this is
  \* the first process on the database)
  close_result, prior_rows,
  \* the clock (hours since midnight UTC of day 0) and the primary engine's
  \* session time zone (the server's TimeZone setting, as hours east of UTC)
  now, session_tz,
  \* get_database_stats: what the cursor has given the caller so far
  \* (store_count, platforms, total_checks)
  fetched

vars == << use_sqlite, url_valid, up, db_type, connection_pool, sqlite_path_set,
           ipc, init_attempt, pools_created, pools_closed,
           pool_used, others, sqlite_open,
           schema, stores, status_checks, summary_reports, stores_seq,
           pc, op, attempt, conn, probed, stmts, pending, result,
           released, rolled_back, raised, faulted, close_result, prior_rows,
           now, session_tz, fetched >>

time_vars == << now, session_tz >>
life_vars == << close_result, prior_rows >>
cfg_vars == << use_sqlite, url_valid >>
init_vars == << ipc, init_attempt >>
table_vars == << schema, stores, status_checks, summary_reports >>
caller_vars == << pc, op, attempt, conn, probed, stmts, pending, result,
                  released, rolled_back, raised, faulted >>
mgr_vars == << db_type, connection_pool, sqlite_path_set >>
pool_vars == << pools_created, pools_closed, pool_used, others, sqlite_open >>

Earliest(S) == CHOOSE t \in S : \A u \in S : t <= u

NoOp == [name |-> "none"]
NoError == [none |-> TRUE]
NoRow == [table |-> "none"]
NoResult == [kind |-> "none", id |-> 0, flag |-> FALSE, rows |-> << >>]

Init ==
  /\ use_sqlite \in BOOLEAN
  /\ url_valid \in (IF use_sqlite THEN {TRUE} ELSE BOOLEAN)
  /\ up = [e \in Engines |-> TRUE]
  /\ db_type = IF use_sqlite THEN "sqlite" ELSE "postgresql"
  /\ connection_pool = 0
  /\ sqlite_path_set = FALSE
  /\ ipc = "init"
  /\ init_attempt = 0
  /\ pools_created = 0
  /\ pools_closed = {}
  /\ pool_used = {}
  /\ others = 0
  /\ sqlite_open = {}
  /\ schema = FALSE
  /\ stores = {}
  /\ status_checks = << >>
  /\ summary_reports = << >>
  /\ stores_seq = 0
  /\ pc = [p \in Procs |-> "idle"]
  /\ op = [p \in Procs |-> NoOp]
  /\ attempt = [p \in Procs |-> 0]
  /\ conn = [p \in Procs |-> 0]
  /\ probed = [p \in Procs |-> FALSE]
  /\ stmts = [p \in Procs |-> 0]
  /\ pending = [p \in Procs |-> NoRow]
  /\ result = [p \in Procs |-> NoResult]
  /\ released = [p \in Procs |-> 0]
  /\ rolled_back = [p \in Procs |-> FALSE]
  /\ raised = [p \in Procs |-> NoError]
  /\ faulted = [p \in Procs |-> FALSE]
  /\ close_result = "none"
  /\ prior_rows = -1
  /\ fetched = [p \in Procs |-> << >>]
  /\ now = Earliest(Instants)
  /\ session_tz = 0

\* ------------------------------------------------------------ environment

\* The engine the manager is using becomes unreachable, or reachable again.
EnvChange ==
  /\ up' = [up EXCEPT ![db_type] = ~up[db_type]]
  /\ ipc # "raised"
  /\ UNCHANGED << cfg_vars, time_vars, fetched, life_vars, mgr_vars, init_vars, pool_vars,
                  table_vars, stores_seq, caller_vars >>

\* ----------------------------------------------------------- construction

\* mutant: the last except clause leaves the engine as configured
FallbackEngine_Stays == "postgresql"

\* _initialize_database's except clause: sleep and go round again, or, after
\* the last attempt, switch to sqlite and initialize that outside any try.
FallbackEngine == "sqlite"

\* mutant: off by one, a further attempt after the last
MayRetryInit_OffByOne(a) == a < max_retries

\* if attempt < self.max_retries - 1 (attempts are numbered from 0)
MayRetryInit(a) == a < max_retries - 1

InitFailure ==
  IF MayRetryInit(init_attempt)
  THEN /\ ipc' = "sleep"
       /\ UNCHANGED db_type
  ELSE /\ ipc' = "fallback"
       /\ db_type' = FallbackEngine

\* mutant: _init_postgresql without the check of the url's scheme
InitPostgresqlRaises_NoSchemeCheck == ~up["postgresql"]

\* _init_postgresql raises: ValueError on a url that does not start with
\* postgresql://, OperationalError from psycopg2.connect or the pool
InitPostgresqlRaises == ~url_valid \/ ~up["postgresql"]

\* _init_postgresql: scheme check, throwaway test connection, pool.
\* _init_sqlite: self.sqlite_path is assigned before its try.
InitEngine ==
  /\ ipc = "init"
  /\ IF db_type = "postgresql"
     THEN IF ~InitPostgresqlRaises
          THEN /\ pools_created' = pools_created + 1
               /\ connection_pool' = pools_created + 1
               /\ ipc' = "tables"
               /\ UNCHANGED << db_type, sqlite_path_set >>
          ELSE /\ InitFailure
               /\ UNCHANGED << pools_created, connection_pool, sqlite_path_set >>
     ELSE /\ sqlite_path_set' = TRUE
          /\ IF up["sqlite"]
             THEN ipc' = "tables" /\ UNCHANGED db_type
             ELSE InitFailure
          /\ UNCHANGED << pools_created, connection_pool >>
  /\ UNCHANGED << cfg_vars, time_vars, fetched, life_vars, up, init_attempt, pools_closed, pool_used,
                  others, sqlite_open, table_vars, stores_seq, caller_vars >>

\* mutant: the tables are dropped and created afresh
SchemaStatements_Recreate ==
  /\ schema' = TRUE
  /\ stores' = {}
  /\ status_checks' = << >>
  /\ summary_reports' = << >>

\* the three CREATE TABLE IF NOT EXISTS and the commit: a table that is
\* there is left as it is, rows included
SchemaStatements ==
  /\ schema' = TRUE
  /\ UNCHANGED << stores, status_checks, summary_reports >>

\* _create_tables inside the try of an attempt: one get_connection scope
\* (acquire, probe, three CREATE TABLE IF NOT EXISTS, commit); a failure
\* anywhere rolls back and releases, and no caller thread runs yet.
CreateTables ==
  /\ ipc = "tables"
  /\ IF up[db_type]
     THEN /\ SchemaStatements
          /\ ipc' = "ready"
          /\ init_attempt' = 0
          /\ UNCHANGED db_type
     ELSE /\ InitFailure
          /\ UNCHANGED << table_vars, init_attempt >>
  /\ UNCHANGED << cfg_vars, time_vars, fetched, life_vars, up, connection_pool, sqlite_path_set,
                  pool_vars, stores_seq, caller_vars >>

\* time.sleep(self.retry_delay), then the next iteration of the for loop
InitSleep ==
  /\ ipc = "sleep"
  /\ ipc' = "init"
  /\ init_attempt' = init_attempt + 1
  /\ UNCHANGED << cfg_vars, time_vars, fetched, life_vars, up, mgr_vars, pool_vars, table_vars, stores_seq,
                  caller_vars >>

\* the fallback's _init_sqlite(): a failure leaves __init__ by an exception
FallbackInit ==
  /\ ipc = "fallback"
  /\ sqlite_path_set' = TRUE
  /\ ipc' = IF up["sqlite"] THEN "fallback_tables" ELSE "raised"
  /\ init_attempt' = 0
  /\ UNCHANGED << cfg_vars, time_vars, fetched, life_vars, up, db_type, connection_pool,
                  pool_vars, table_vars, stores_seq, caller_vars >>

\* the fallback's _create_tables()
FallbackTables ==
  /\ ipc = "fallback_tables"
  /\ IF up[db_type]
     THEN SchemaStatements /\ ipc' = "ready"
     ELSE ipc' = "raised" /\ UNCHANGED table_vars
  /\ UNCHANGED << cfg_vars, time_vars, fetched, life_vars, up, mgr_vars, init_attempt, pool_vars,
                  stores_seq, caller_vars >>

\* ------------------------------------------------------- pure helpers

\* marker in url: the pieces of the marker, one after the other, in the url
Contains(url, marker) ==
  \E i \in 1..(Len(url) - Len(marker) + 1) :
    SubSeq(url, i, i + Len(marker) - 1) = marker

\* mutant: a url that mentions foodpanda anywhere is a foodpanda url
Platform_AnyFoodpanda(url) ==
  IF Contains(url, << "foodpanda" >>) THEN "foodpanda" ELSE "grabfood"

\* get_or_create_store: platform = "foodpanda" if "foodpanda.ph" in url else "grabfood"
Platform(url) ==
  IF Contains(url, << "foodpanda", ".ph" >>) THEN "foodpanda" ELSE "grabfood"

\* int(x) and the comparison total_stores > 0 raise on these values
IsInt(v) == DOMAIN v = {"int"}
IsNumber(v) == DOMAIN v \in {{"int"}, {"float"}}

\* the value of a number as a ratio
ToRatio(v) == IF IsInt(v) THEN [num |-> v.int, den |-> 1] ELSE v.float

\* int(v) of a number that is not negative: its whole part
ToInt(v) == PyInt(ToRatio(v).num \div ToRatio(v).den)

\* the parameter v in the iteration k (from 0) of the for loop: the first
\* iteration assigned int(v) to it
CountAt(v, k) == IF k = 0 THEN v ELSE ToInt(v)

\* mutant: the ratio is stored as a fraction of one
Percentage_NoScale(total, online) ==
  IF total > 0 THEN [num |-> online, den |-> total] ELSE [num |-> 0, den |-> 1]

\* online_percentage = (online_stores / total_stores * 100) if total_stores > 0 else 0,
\* kept as the exact ratio num/den
Percentage(total, online) ==
  IF total > 0 THEN [num |-> online * 100, den |-> total] ELSE [num |-> 0, den |-> 1]

\* the percentage the iteration k (from 0) of save_summary_report's loop
\* computes, from the counts as the iterations before left them
PercentageAt(o, k) ==
  LET t == ToRatio(CountAt(o.total_stores, k))
      n == ToRatio(CountAt(o.online_stores, k))
  IN Percentage(n.den * t.num, n.num * t.den)

\* mutant: the message is cut at the limit and no marker is appended
Truncate_NoMarker(m) ==
  IF m # PyNone /\ Len(m.str) > error_limit
  THEN PyStr(SubSeq(m.str, 1, error_limit)) ELSE m

\* if error_message and len(error_message) > 500:
\*     error_message = error_message[:500] + "..."
Truncate(m) ==
  IF m # PyNone /\ Len(m.str) # 0 /\ Len(m.str) > error_limit
  THEN PyStr(SubSeq(m.str, 1, error_limit) \o << ".", ".", "." >>) ELSE m

\* the local variable error_message in the k-th iteration of the for loop:
\* every iteration runs the truncation on what the one before left
RECURSIVE Normalised(_, _)
Normalised(m, k) == IF k = 0 THEN m ELSE Truncate(Normalised(m, k - 1))

\* the statements before get_connection in the try block: does one raise?
NormalisationRaises(o) ==
  CASE o.name = "save_status_check" ->
         o.response_time_ms # PyNone /\ ~IsNumber(o.response_time_ms)
    [] o.name = "save_summary_report" ->
         ~IsNumber(o.total_stores) \/ ~IsNumber(o.online_stores)
           \/ ~IsNumber(o.offline_stores)
    [] OTHER -> FALSE

\* mutant: the except clause reports the real number of stores
FallbackStats_RealCount ==
  [store_count |-> Cardinality(stores), platforms |-> << >>, total_checks |-> 0,
   latest_summary |-> PyNone, db_type |-> db_type]

\* the dict the except clause of get_database_stats returns
FallbackStats ==
  [store_count |-> 0, platforms |-> << >>, total_checks |-> 0,
   latest_summary |-> PyNone, db_type |-> db_type]

\* mutant: get_or_create_store falls out of its loop and returns None
FailureResult_ReturnsNone(name) ==
  CASE name = "get_or_create_store" -> [kind |-> "id", id |-> 0, flag |-> FALSE, rows |-> << >>]
    [] name \in {"save_status_check", "save_summary_report"} ->
         [kind |-> "bool", id |-> 0, flag |-> FALSE, rows |-> << >>]
    [] name = "get_database_stats" -> [kind |-> "stats", id |-> 0, flag |-> FALSE, rows |-> << >>]
    [] OTHER -> [kind |-> "frame", id |-> 0, flag |-> FALSE, rows |-> << >>]

\* mutant: the save operations re-raise after their last attempt
FailureResult_SavesRaise(name) ==
  CASE name \in WriteOps -> [kind |-> "raise", id |-> 0, flag |-> FALSE, rows |-> << >>]
    [] name = "get_database_stats" -> [kind |-> "stats", id |-> 0, flag |-> FALSE, rows |-> << >>]
    [] OTHER -> [kind |-> "frame", id |-> 0, flag |-> FALSE, rows |-> << >>]

\* mutant: the read operations have no except clause
FailureResult_ReadsRaise(name) ==
  CASE name = "get_or_create_store" -> [kind |-> "raise", id |-> 0, flag |-> FALSE, rows |-> << >>]
    [] name \in {"save_status_check", "save_summary_report"} ->
         [kind |-> "bool", id |-> 0, flag |-> FALSE, rows |-> << >>]
    [] OTHER -> [kind |-> "raise", id |-> 0, flag |-> FALSE, rows |-> << >>]

\* what the operation's except clause gives the caller in the end
FailureResult(name) ==
  CASE name = "get_or_create_store" -> [kind |-> "raise", id |-> 0, flag |-> FALSE, rows |-> << >>]
    [] name \in {"save_status_check", "save_summary_report"} ->
         [kind |-> "bool", id |-> 0, flag |-> FALSE, rows |-> << >>]
    [] name = "get_database_stats" ->
         [kind |-> "stats", id |-> 0, flag |-> FALSE, rows |-> << FallbackStats >>]
    [] OTHER -> [kind |-> "frame", id |-> 0, flag |-> FALSE, rows |-> << >>]

\* mutant: a single attempt, as with max_retries = 1
MayRetry_Never(a) == FALSE

\* mutant: off by one, a further attempt after the last
MayRetry_OffByOne(a) == a < max_retries

\* for attempt in range(self.max_retries) ... if attempt < self.max_retries - 1
MayRetry(a) == a < max_retries - 1

ConnIds == 1..(NumProcs + 1)
FreshConn == CHOOSE c \in ConnIds :
               /\ c \notin pool_used \cup sqlite_open
               /\ \A d \in ConnIds : d \notin pool_used \cup sqlite_open => c <= d

\* mutant: a pool with no upper bound
PoolHasRoom_Unbounded == TRUE

\* ThreadedConnectionPool.getconn: PoolError once maxconn are checked out
PoolHasRoom == Cardinality(pool_used) + others < maxconn

PoolOpen == connection_pool # 0 /\ connection_pool \notin pools_closed

InScope(p) == pc[p] \in {"probe", "select", "insert", "commit", "query"}

\* ------------------------------------------------------------ transactions

\* mutant: the INSERT replaces what the table holds
AddRow_Overwrites(r) ==
  /\ stores' = IF r.table = "stores" THEN {r.row} ELSE stores
  /\ status_checks' = IF r.table = "status_checks"
                      THEN << r.row >> ELSE status_checks
  /\ summary_reports' = IF r.table = "summary_reports"
                        THEN << r.row >> ELSE summary_reports

\* the committed INSERT: one more row, the others as they were
AddRow(r) ==
  /\ stores' = IF r.table = "stores" THEN stores \cup {r.row} ELSE stores
  /\ status_checks' = IF r.table = "status_checks"
                      THEN Append(status_checks, r.row) ELSE status_checks
  /\ summary_reports' = IF r.table = "summary_reports"
                        THEN Append(summary_reports, r.row) ELSE summary_reports

\* conn.commit()
CommitTxn(p) == AddRow(pending[p])

\* mutant: the failed scope's statements stay (an autocommitting connection)
Rollback_Keeps(p) == AddRow(pending[p])

\* conn.rollback() in get_connection's except clause (and the rollback that
\* putconn / close imply for an open transaction)
Rollback(p) == UNCHANGED << stores, status_checks, summary_reports >>

\* another connection's open write transaction stands in the way: sqlite has
\* one writer per database; postgresql makes an INSERT of a url wait for an
\* uncommitted INSERT of the same url
LockedByOther(p, r) ==
  \E q \in Procs \ {p} :
     /\ pending[q] # NoRow
     /\ \/ db_type = "sqlite"
        \/ /\ r.table = "stores"
           /\ pending[q].table = "stores"
           /\ pending[q].row.url = r.row.url

\* ---------------------------------------------------------- get_connection

\* the finally clause: putconn(conn) if conn and self.connection_pool,
\* conn.close() if conn
PutConn(p) ==
  IF db_type = "postgresql"
  THEN /\ pool_used' = IF conn[p] # 0 /\ connection_pool # 0
                       THEN pool_used \ {conn[p]} ELSE pool_used
       /\ UNCHANGED sqlite_open
  ELSE /\ sqlite_open' = IF conn[p] # 0 THEN sqlite_open \ {conn[p]} ELSE sqlite_open
       /\ UNCHANGED pool_used

Release(p) ==
  /\ PutConn(p)
  /\ released' = [released EXCEPT ![p] = @ + (IF conn[p] # 0 THEN 1 ELSE 0)]
  /\ conn' = [conn EXCEPT ![p] = 0]

\* ------------------------------------------------------------ errors

\* an exception: its class, its text in pieces (the driver's messages end
\* with a line feed), and for the exception raised inside an except clause
\* the exception that clause was handling (__context__)
Exc(class, text) == [class |-> class, text |-> text]

\* str.strip(): the text without its leading and trailing whitespace
Whitespace == {" ", "\n"}
RECURSIVE Strip(_)
Strip(t) ==
  IF t = << >> THEN t
  ELSE IF Head(t) \in Whitespace THEN Strip(Tail(t))
  ELSE IF t[Len(t)] \in Whitespace THEN Strip(SubSeq(t, 1, Len(t) - 1))
  ELSE t

\* raise Exception("Connection pool not initialized")
PoolNotInitialized == Exc("Exception", << "Connection pool not initialized" >>)

\* what the driver raises when the engine cannot be reached: opening a
\* connection, and using one that was open (the server may also drop a
\* connection while it is being opened)
ConnectErrors(engine) ==
  IF engine = "postgresql"
  THEN { Exc("OperationalError", << "could not connect to server", "\n" >>),
         Exc("OperationalError", << "server closed the connection unexpectedly", "\n" >>) }
  ELSE { Exc("OperationalError", << "unable to open database file" >>) }
LostErrors(engine) ==
  IF engine = "postgresql"
  THEN { Exc("OperationalError", << "server closed the connection unexpectedly", "\n" >>) }
  ELSE { Exc("OperationalError", << "disk I/O error" >>) }

\* self.connection_pool.getconn() on a pool that hands out nothing: the pool
\* is closed, or all its connections are in use (getconn raises, it never
\* returns None, so "Failed to get connection from pool" is never raised)
PoolErrors ==
  IF connection_pool = 0 THEN { PoolNotInitialized }
  ELSE IF ~PoolOpen THEN { Exc("PoolError", << "connection pool is closed" >>) }
  ELSE { Exc("PoolError", << "connection pool exhausted" >>) }

\* which of the scope's steps raised: the pool check, getconn / connect, the
\* probe, a statement of the caller's body
AcquireStage ==
  IF db_type = "postgresql" /\ connection_pool = 0 THEN "pool" ELSE "getconn"
BodyStage(p) == IF pc[p] = "probe" THEN "probe" ELSE "body"

\* what the probe or a statement of the body raises
BodyErrors(p) ==
  IF ~up[db_type] \/ pc[p] = "probe" THEN LostErrors(db_type)
  ELSE IF op[p].name = "get_database_stats"
       THEN { Exc("TypeError", << "cannot convert dictionary update sequence element" >>) }
       ELSE { Exc("DatabaseError", << "statement rejected", "\n" >>) }

\* the text the except clause of the active engine puts before the cause's
Prefix == IF db_type = "postgresql" THEN "Database connection failed: "
          ELSE "SQLite error: "

\* mutant: the except clause re-raises what it caught
Wrapped_Reraise(e) == [class |-> e.class, text |-> e.text, context |-> NoError]

\* error_msg = str(e).strip(); raise Exception(f"<prefix>{error_msg}")
Wrapped(e) ==
  [class |-> "Exception", text |-> << Prefix >> \o Strip(e.text), context |-> e]

\* the exception that leaves the scope, with the step that raised its cause
Raised(stage, e) == [stage |-> stage, exc |-> Wrapped(e)]

\* mutant: the release sits at the end of the try block, not in a finally
ExitScope_NoFinally(p, how) ==
  /\ rolled_back' = [rolled_back EXCEPT ![p] = (how = "fail" /\ conn[p] # 0)]
  /\ \E c \in BodyErrors(p) :
       raised' = [raised EXCEPT ![p] = IF how = "fail" THEN Raised(BodyStage(p), c)
                                       ELSE NoError]
  /\ pending' = [pending EXCEPT ![p] = NoRow]
  /\ IF how = "ok"
     THEN Release(p)
     ELSE /\ conn' = [conn EXCEPT ![p] = 0]
          /\ UNCHANGED << pool_used, sqlite_open, released >>

\* leaving the scope: "ok" runs the finally clause only, "fail" runs the
\* except clause (rollback if conn, raise) and then the finally clause
ExitScope(p, how) ==
  /\ rolled_back' = [rolled_back EXCEPT ![p] = (how = "fail" /\ conn[p] # 0)]
  /\ \E c \in BodyErrors(p) :
       raised' = [raised EXCEPT ![p] = IF how = "fail" THEN Raised(BodyStage(p), c)
                                       ELSE NoError]
  /\ pending' = [pending EXCEPT ![p] = NoRow]
  /\ Release(p)

\* the operation's own handling of an attempt that raised
AttemptFailed(p) ==
  IF op[p].name \in WriteOps /\ MayRetry(attempt[p])
  THEN /\ pc' = [pc EXCEPT ![p] = "sleep"]
       /\ UNCHANGED result
  ELSE /\ pc' = [pc EXCEPT ![p] = "done"]
       /\ result' = [result EXCEPT ![p] = FailureResult(op[p].name)]

\* the operation's return statement inside the scope
Returns(p, r) ==
  /\ pc' = [pc EXCEPT ![p] = "done"]
  /\ result' = [result EXCEPT ![p] = r]

\* a statement of the scope's body raised (env: the engine caused it)
BodyFails(p, env) ==
  /\ ExitScope(p, "fail")
  /\ Rollback(p)
  /\ AttemptFailed(p)
  /\ faulted' = [faulted EXCEPT ![p] = @ \/ env]

\* ------------------------------------------------------------ operations

OpChoices ==
  { [name |-> "get_or_create_store", sname |-> a[1], url |-> a[2]] : a \in StoreArgs }
  \cup { [name |-> "save_status_check", store_id |-> a[1], is_online |-> a[2],
          response_time_ms |-> a[3], error_message |-> a[4]] : a \in CheckArgs }
  \cup { [name |-> "save_summary_report", total_stores |-> a[1],
          online_stores |-> a[2], offline_stores |-> a[3]] : a \in SummaryArgs }
  \cup [name : ReadOps]

\* a caller thread calls one of the eight public operations, with arguments
\* from the workload C
StartOp(p, C) ==
  /\ ipc = "ready"
  /\ pc[p] = "idle"
  /\ \E o \in C :
       /\ o.name = "get_or_create_store" => stores_seq < MaxSeq
       /\ o.name = "save_status_check" => Len(status_checks) < MaxChecks
       /\ o.name = "save_summary_report" => Len(summary_reports) < MaxReports
       /\ op' = [op EXCEPT ![p] = o]
  /\ pc' = [pc EXCEPT ![p] = "attempt"]
  /\ UNCHANGED << cfg_vars, time_vars, fetched, life_vars, up, mgr_vars, init_vars, pool_vars, table_vars,
                  stores_seq, attempt, conn, probed, stmts, pending, result,
                  released, rolled_back, raised, faulted >>

\* mutant: a failed acquisition ends the operation, whatever the attempt
AcquireFails_GivesUp(p) ==
  /\ faulted' = [faulted EXCEPT ![p] = TRUE]
  /\ pc' = [pc EXCEPT ![p] = "done"]
  /\ result' = [result EXCEPT ![p] = FailureResult(op[p].name)]
  /\ UNCHANGED << pool_used, sqlite_open, conn >>

\* get_connection could not hand out a connection: conn is still None, the
\* except clause has nothing to roll back, the finally clause nothing to release
AcquireFails(p) ==
  /\ faulted' = [faulted EXCEPT ![p] = TRUE]
  /\ AttemptFailed(p)
  /\ UNCHANGED << pool_used, sqlite_open, conn >>

\* one iteration of the operation's loop up to the connection: the
\* normalisation of the arguments, then get_connection up to getconn / connect
Acquire(p) ==
  /\ pc[p] = "attempt"
  /\ stmts' = [stmts EXCEPT ![p] = 0]
  /\ probed' = [probed EXCEPT ![p] = FALSE]
  /\ released' = [released EXCEPT ![p] = 0]
  /\ rolled_back' = [rolled_back EXCEPT ![p] = FALSE]
  /\ IF NormalisationRaises(op[p])
     THEN /\ AttemptFailed(p)
          /\ raised' = [raised EXCEPT ![p] = NoError]
          /\ UNCHANGED << pool_used, sqlite_open, conn, faulted >>
     ELSE IF db_type = "postgresql" /\ ~(PoolOpen /\ PoolHasRoom)
          THEN /\ AcquireFails(p)
               /\ \E c \in PoolErrors :
                    raised' = [raised EXCEPT ![p] = Raised(AcquireStage, c)]
          ELSE \E got \in (IF up[db_type] THEN {TRUE} ELSE BOOLEAN) :
                 IF got
                 THEN /\ conn' = [conn EXCEPT ![p] = FreshConn]
                      /\ IF db_type = "postgresql"
                         THEN pool_used' = pool_used \cup {FreshConn}
                              /\ UNCHANGED sqlite_open
                         ELSE sqlite_open' = sqlite_open \cup {FreshConn}
                              /\ UNCHANGED pool_used
                      /\ pc' = [pc EXCEPT ![p] = "probe"]
                      /\ raised' = [raised EXCEPT ![p] = NoError]
                      /\ UNCHANGED << result, faulted >>
                 ELSE /\ AcquireFails(p)
                      /\ \E c \in ConnectErrors(db_type) :
                           raised' = [raised EXCEPT ![p] = Raised(AcquireStage, c)]
  /\ UNCHANGED << cfg_vars, time_vars, fetched, life_vars, up, mgr_vars, init_vars, pools_created, pools_closed,
                  others, table_vars, stores_seq, op, attempt, pending >>

FirstStatement(name) ==
  CASE name = "get_or_create_store" -> "select"
    [] name \in {"save_status_check", "save_summary_report"} -> "insert"
    [] OTHER -> "query"

\* the liveness probe SELECT 1 succeeds on a reachable engine
ProbePasses == up[db_type]

\* mutant: the probe's exception is swallowed
Yields_Always(probe_passed) == TRUE

\* get_connection reaches "yield conn" only if the probe did not raise
Yields(probe_passed) == probe_passed

Probe(p) ==
  /\ pc[p] = "probe"
  /\ probed' = [probed EXCEPT ![p] = ProbePasses]
  /\ IF Yields(ProbePasses)
     THEN /\ pc' = [pc EXCEPT ![p] = FirstStatement(op[p].name)]
          /\ UNCHANGED << pool_used, sqlite_open, conn, pending, result, released,
                          rolled_back, raised, faulted, table_vars >>
     ELSE /\ BodyFails(p, TRUE)
          /\ UNCHANGED schema
  /\ UNCHANGED << cfg_vars, time_vars, fetched, life_vars, up, mgr_vars, init_vars, pools_created, pools_closed,
                  others, stores_seq, op, attempt, stmts >>

\* mutant: the lookup goes by the store's name
Lookup_ByName(p) == { s \in stores : s.name = op[p].sname }

\* SELECT id FROM stores WHERE url = %s: the committed rows of that url
Lookup(p) == { s \in stores : s.url = op[p].url }

\* get_or_create_store: SELECT id FROM stores WHERE url = ...; return the id
\* found (leaving the scope without a commit) or go on to the INSERT
Select(p) ==
  /\ pc[p] = "select"
  /\ stmts' = [stmts EXCEPT ![p] = @ + 1]
  /\ IF ~up[db_type]
     THEN BodyFails(p, TRUE)
     ELSE /\ IF Lookup(p) # {}
             THEN /\ ExitScope(p, "ok")
                  /\ Returns(p, [kind |-> "id", flag |-> FALSE,
                                 id |-> (CHOOSE s \in Lookup(p) : TRUE).id,
                                 rows |-> << >>])
                  /\ UNCHANGED << stores, status_checks, summary_reports, faulted >>
             ELSE /\ pc' = [pc EXCEPT ![p] = "insert"]
                  /\ UNCHANGED << pool_used, sqlite_open, conn, pending, result,
                                  released, rolled_back, raised, faulted,
                                  stores, status_checks, summary_reports >>
  /\ UNCHANGED << cfg_vars, time_vars, fetched, life_vars, up, mgr_vars, init_vars, pools_created, pools_closed,
                  others, schema, stores_seq, op, attempt, probed >>

\* DEFAULT CURRENT_TIMESTAMP in a TIMESTAMP column: sqlite stores UTC, the
\* primary engine the wall clock of the session's time zone
StoredNow == IF db_type = "postgresql" THEN now + session_tz ELSE now

MaxId(S) == IF S = {} THEN 0 ELSE CHOOSE m \in S : \A x \in S : x <= m

\* the id the engine assigns: SERIAL (a sequence, never rolled back) or
\* INTEGER PRIMARY KEY AUTOINCREMENT (cursor.lastrowid)
NewStoreId ==
  IF db_type = "postgresql" THEN stores_seq + 1
  ELSE MaxId({ s.id : s \in stores }) + 1

\* the row the operation's INSERT statement writes
NewRow(p) ==
  LET o == op[p] IN
  CASE o.name = "get_or_create_store" ->
         [table |-> "stores",
          row |-> [id |-> NewStoreId, name |-> o.sname, url |-> o.url,
                   platform |-> Platform(o.url), created_at |-> StoredNow]]
    [] o.name = "save_status_check" ->
         [table |-> "status_checks",
          row |-> [store_id |-> o.store_id, is_online |-> o.is_online,
                   response_time_ms |-> IF o.response_time_ms = PyNone THEN PyNone
                                        ELSE ToInt(o.response_time_ms),
                   error_message |-> Normalised(o.error_message, attempt[p] + 1),
                   checked_at |-> StoredNow]]
    [] o.name = "save_summary_report" ->
         [table |-> "summary_reports",
          row |-> [total_stores |-> ToInt(o.total_stores).int,
                   online_stores |-> ToInt(o.online_stores).int,
                   offline_stores |-> ToInt(o.offline_stores).int,
                   online_percentage |-> PercentageAt(o, attempt[p]),
                   report_time |-> StoredNow]]

\* mutant: the stores table without its UNIQUE constraint
UniqueViolation_None(r) == FALSE

\* url TEXT NOT NULL UNIQUE on both engines
UniqueViolation(r) ==
  r.table = "stores" /\ \E s \in stores : s.url = r.row.url

\* mutant: no engine enforces the reference
ForeignKeyViolation_None(r) == FALSE

\* store_id INTEGER REFERENCES stores(id): enforced by postgresql only
\* (sqlite declares the FOREIGN KEY and does not enforce it)
ForeignKeyViolation(r) ==
  /\ db_type = "postgresql"
  /\ r.table = "status_checks"
  /\ \A s \in stores : s.id # r.row.store_id

\* the INSERT statement of the three write operations
Insert(p) ==
  /\ pc[p] = "insert"
  /\ stmts' = [stmts EXCEPT ![p] = @ + 1]
  /\ LET r == NewRow(p) IN
     IF ~up[db_type]
     THEN /\ BodyFails(p, TRUE)
          /\ UNCHANGED stores_seq
     ELSE IF LockedByOther(p, r)
          THEN \* sqlite: the 30 s lock wait ran out; postgresql: keeps waiting
               /\ db_type = "sqlite"
               /\ BodyFails(p, TRUE)
               /\ UNCHANGED stores_seq
          ELSE /\ stores_seq' = IF db_type = "postgresql" /\ r.table = "stores"
                                THEN stores_seq + 1 ELSE stores_seq
               /\ IF UniqueViolation(r) \/ ForeignKeyViolation(r)
                  THEN BodyFails(p, FALSE)
                  ELSE /\ pending' = [pending EXCEPT ![p] = r]
                       /\ pc' = [pc EXCEPT ![p] = "commit"]
                       /\ UNCHANGED << pool_used, sqlite_open, conn, result, released,
                                       rolled_back, raised, faulted,
                                       stores, status_checks, summary_reports >>
  /\ UNCHANGED << cfg_vars, time_vars, fetched, life_vars, up, mgr_vars, init_vars, pools_created, pools_closed,
                  others, schema, op, attempt, probed >>

\* mutant: the id returned is the result of the SELECT that found nothing
StoreIdReturned_Stale(p) == 0

\* store_id = store_result[0] (RETURNING id) / cursor.lastrowid
StoreIdReturned(p) == pending[p].row.id

\* conn.commit(), then return store_id / return True
Commit(p) ==
  /\ pc[p] = "commit"
  /\ stmts' = [stmts EXCEPT ![p] = @ + 1]
  /\ IF ~up[db_type]
     THEN BodyFails(p, TRUE)
     ELSE /\ CommitTxn(p)
          /\ ExitScope(p, "ok")
          /\ Returns(p, IF op[p].name = "get_or_create_store"
                        THEN [kind |-> "id", id |-> StoreIdReturned(p), flag |-> FALSE, rows |-> << >>]
                        ELSE [kind |-> "bool", id |-> 0, flag |-> TRUE, rows |-> << >>])
          /\ UNCHANGED faulted
  /\ UNCHANGED << cfg_vars, time_vars, fetched, life_vars, up, mgr_vars, init_vars, pools_created, pools_closed,
                  others, schema, stores_seq, op, attempt, probed >>

\* ------------------------------------------------------------ queries

\* the calendar day and the hour of day of a time in hours
Date(t) == t \div 24
HourOfDay(t) == t % 24

\* postgresql, ts AT TIME ZONE 'Asia/Manila' on a TIMESTAMP column (without
\* time zone): the instant at which the clocks of Manila show ts, which
\* DATE() and EXTRACT() then read in the session's time zone
AtTimeZoneManila(ts) == (ts - manila_offset) + session_tz

\* the WHERE clause of the three day-filtered reads, on the engine e:
\*   DATE(checked_at AT TIME ZONE 'Asia/Manila') = CURRENT_DATE
\*   DATE(checked_at, '+8 hours') = DATE('now', '+8 hours')
CurrentDayOn(e, ts) ==
  IF e = "postgresql"
  THEN Date(AtTimeZoneManila(ts)) = Date(now + session_tz)
  ELSE Date(ts + shift_hours) = Date(now + shift_hours)

CurrentDay(ts) == CurrentDayOn(db_type, ts)

\* the two digits of strftime('%H', ...)
Digits(h) == << h \div 10, h % 10 >>

\* the hour column of get_hourly_data:
\*   EXTRACT(HOUR FROM report_time AT TIME ZONE 'Asia/Manila')::integer
\*   strftime('%H', report_time)
HourColumn(ts) ==
  IF db_type = "postgresql"
  THEN PyInt(HourOfDay(AtTimeZoneManila(ts)))
  ELSE PyStr(Digits(HourOfDay(ts)))

\* the order of the hour column: of integers, of two-digit texts
HourRank(h) == IF IsInt(h) THEN h.int ELSE 10 * h.str[1] + h.str[2]

\* ROUND(x, 0) of the ratio num/den >= 0: halves go away from zero on both
\* engines
Round(num, den) == (2 * num + den) \div (2 * den)

\* the sum of the ratios of a sequence
RECURSIVE SumRatios(_)
SumRatios(q) ==
  IF q = << >> THEN [num |-> 0, den |-> 1]
  ELSE LET r == SumRatios(Tail(q))
       IN [num |-> Head(q).num * r.den + r.num * Head(q).den,
           den |-> Head(q).den * r.den]

\* the arrangements of the items I in a sequence, and those among them that
\* an ORDER BY allows: no item stands after one that the pairs of Before put
\* behind it (rows that tie on the sort key come in any order)
Arrangements(I) ==
  { q \in [1..Cardinality(I) -> I] :
      \A a, b \in 1..Cardinality(I) : a # b => q[a] # q[b] }
OrderedBy(I, Before) ==
  { q \in Arrangements(I) :
      \A a, b \in 1..Cardinality(I) : a < b => << q[b], q[a] >> \notin Before }

\* ORDER BY s.name: the names the callers use, as the collation orders them
Collation == << "Cocopan A", "Cocopan B", "Cocopan C", "Cocopan D",
               "Cocopan foodpanda.ph" >>
NameRank(n) == CHOOSE k \in 1..Len(Collation) : Collation[k] = n

\* FROM stores s INNER JOIN status_checks sc ON s.id = sc.store_id: the
\* status_checks rows (by position) that have a store, and that store
Joined == { i \in 1..Len(status_checks) :
            \E s \in stores : s.id = status_checks[i].store_id }
StoreOf(i) == CHOOSE s \in stores : s.id = status_checks[i].store_id

\* SELECT store_id, MAX(checked_at) as latest_check ... GROUP BY store_id
LatestCheck(store_id) ==
  LET T == { status_checks[i].checked_at :
               i \in { j \in 1..Len(status_checks) :
                         status_checks[j].store_id = store_id } }
  IN CHOOSE t \in T : \A u \in T : u <= t

\* get_latest_status: the frames the query may give
LatestStatus ==
  LET I == { i \in Joined :
               status_checks[i].checked_at = LatestCheck(status_checks[i].store_id) }
      Row(i) == [name |-> StoreOf(i).name, url |-> StoreOf(i).url,
                 platform |-> StoreOf(i).platform,
                 is_online |-> status_checks[i].is_online,
                 checked_at |-> status_checks[i].checked_at,
                 response_time_ms |-> status_checks[i].response_time_ms]
  IN { [k \in 1..Cardinality(I) |-> Row(q[k])] :
         q \in OrderedBy(I, { ij \in I \X I :
                  NameRank(StoreOf(ij[1]).name) < NameRank(StoreOf(ij[2]).name) }) }

\* get_hourly_data: the frames the query may give
HourlyData ==
  LET I == { i \in 1..Len(summary_reports) : CurrentDay(summary_reports[i].report_time) }
      H == { HourColumn(summary_reports[i].report_time) : i \in I }
      G(h) == { i \in I : HourColumn(summary_reports[i].report_time) = h }
      Pcts(h) == LET q == CHOOSE q \in Arrangements(G(h)) : TRUE
                 IN [k \in 1..Len(q) |-> summary_reports[q[k]].online_percentage]
      Rest(h) == [k \in 1..Len(Pcts(h)) |->
                    [num |-> 100 * Pcts(h)[k].den - Pcts(h)[k].num,
                     den |-> Pcts(h)[k].den]]
      Avg(q) == [num |-> SumRatios(q).num, den |-> SumRatios(q).den * Len(q)]
      Row(h) == [hour |-> h,
                 online_pct |-> Round(Avg(Pcts(h)).num, Avg(Pcts(h)).den),
                 offline_pct |-> Round(Avg(Rest(h)).num, Avg(Rest(h)).den),
                 data_points |-> Cardinality(G(h))]
  IN { [k \in 1..Cardinality(H) |-> Row(q[k])] :
         q \in OrderedBy(H, { gh \in H \X H : HourRank(gh[1]) < HourRank(gh[2]) }) }

\* def get_store_logs(self, limit: int = 50)
Limit(o) == IF "limit" \in DOMAIN o THEN o.limit ELSE default_limit

\* get_store_logs: the frames the query may give
StoreLogs(limit) ==
  LET I == { i \in Joined : CurrentDay(status_checks[i].checked_at) }
      n == IF Cardinality(I) < limit THEN Cardinality(I) ELSE limit
      Row(i) == [name |-> StoreOf(i).name, platform |-> StoreOf(i).platform,
                 is_online |-> status_checks[i].is_online,
                 checked_at |-> status_checks[i].checked_at,
                 response_time_ms |-> status_checks[i].response_time_ms]
  IN { [k \in 1..n |-> Row(q[k])] :
         q \in OrderedBy(I, { ij \in I \X I :
                  status_checks[ij[1]].checked_at > status_checks[ij[2]].checked_at }) }

\* get_daily_uptime: the frames the query may give
DailyUptime ==
  LET I == { i \in Joined : CurrentDay(status_checks[i].checked_at) }
      S == { StoreOf(i) : i \in I }
      Total(s) == Cardinality({ i \in I : status_checks[i].store_id = s.id })
      Online(s) == Cardinality({ i \in I : /\ status_checks[i].store_id = s.id
                                           /\ status_checks[i].is_online })
      Row(s) == [name |-> s.name, platform |-> s.platform,
                 total_checks |-> Total(s), online_checks |-> Online(s),
                 uptime_percentage |-> Round(Online(s) * 100, Total(s))]
  IN { [k \in 1..Cardinality(S) |-> Row(q[k])] :
         q \in OrderedBy(S, { st \in S \X S :
                  Row(st[1]).uptime_percentage > Row(st[2]).uptime_percentage }) }

\* the frames the query of a read operation may give
Frames(o) ==
  CASE o.name = "get_latest_status" -> LatestStatus
    [] o.name = "get_hourly_data" -> HourlyData
    [] o.name = "get_store_logs" -> StoreLogs(Limit(o))
    [] o.name = "get_daily_uptime" -> DailyUptime
    [] OTHER -> { << >> }

\* get_database_stats, the first three statements in their order:
\*   SELECT COUNT(*) FROM stores                 fetchone()[0]
\*   SELECT platform, COUNT(*) ... GROUP BY      dict(fetchall())
\*   SELECT COUNT(*) FROM status_checks          fetchone()[0]
StatsValue(k) ==
  CASE k = 1 -> Cardinality(stores)
    [] k = 2 -> [pl \in { s.platform : s \in stores } |->
                  Cardinality({ s \in stores : s.platform = pl })]
    [] k = 3 -> Len(status_checks)

\* SELECT * FROM summary_reports ORDER BY report_time DESC LIMIT 1, then
\* fetchone(): None, or a row with the greatest report_time (its id stands
\* for its place in the table)
LatestSummaries ==
  IF summary_reports = << >> THEN { PyNone }
  ELSE { [id |-> i] @@ summary_reports[i] :
           i \in { j \in 1..Len(summary_reports) :
                     \A k \in 1..Len(summary_reports) :
                       summary_reports[k].report_time <= summary_reports[j].report_time } }

\* get_database_stats on the pool's plain cursor: dict(latest_summary) of a
\* tuple row raises inside the scope; sqlite3.Row converts
StatsConversionRaises ==
  db_type = "postgresql" /\ Len(summary_reports) > 0

\* the dict the try block of get_database_stats returns
StatsDict(f, latest) ==
  [store_count |-> f[1], platforms |-> f[2], total_checks |-> f[3],
   latest_summary |-> latest, db_type |-> db_type]

\* the query of a read operation and its return: pd.read_sql_query, or the
\* next of the four statements of get_database_stats
Query(p) ==
  /\ pc[p] = "query"
  /\ stmts' = [stmts EXCEPT ![p] = @ + 1]
  /\ IF ~up[db_type]
     THEN BodyFails(p, TRUE) /\ UNCHANGED fetched
     ELSE IF op[p].name = "get_database_stats"
          THEN IF Len(fetched[p]) < 3
               THEN /\ fetched' = [fetched EXCEPT
                                    ![p] = Append(@, StatsValue(Len(@) + 1))]
                    /\ UNCHANGED << pc, pool_used, sqlite_open, conn, pending, result,
                                    released, rolled_back, raised, faulted,
                                    stores, status_checks, summary_reports >>
               ELSE /\ UNCHANGED fetched
                    /\ IF StatsConversionRaises
                       THEN BodyFails(p, FALSE)
                       ELSE /\ ExitScope(p, "ok")
                            /\ \E latest \in LatestSummaries :
                                 Returns(p, [kind |-> "stats", id |-> 0, flag |-> TRUE,
                                             rows |-> << StatsDict(fetched[p], latest) >>])
                            /\ UNCHANGED << stores, status_checks, summary_reports,
                                            faulted >>
          ELSE /\ ExitScope(p, "ok")
               /\ \E f \in Frames(op[p]) :
                    Returns(p, [kind |-> "frame", id |-> 0, flag |-> TRUE, rows |-> f])
               /\ UNCHANGED << stores, status_checks, summary_reports, faulted, fetched >>
  /\ UNCHANGED << cfg_vars, time_vars, life_vars, up, mgr_vars, init_vars, pools_created,
                  pools_closed, others, schema, stores_seq, op, attempt, probed >>

\* time.sleep(self.retry_delay), then the next iteration of the for loop
Sleep(p) ==
  /\ pc[p] = "sleep"
  /\ pc' = [pc EXCEPT ![p] = "attempt"]
  /\ attempt' = [attempt EXCEPT ![p] = @ + 1]
  /\ UNCHANGED << cfg_vars, time_vars, fetched, life_vars, up, mgr_vars, init_vars, pool_vars, table_vars,
                  stores_seq, op, conn, probed, stmts, pending, result, released,
                  rolled_back, raised, faulted >>

\* the caller has the operation's result (or its exception); the call's
\* frame is gone
Return(p) ==
  /\ pc[p] = "done"
  /\ pc' = [pc EXCEPT ![p] = "idle"]
  /\ op' = [op EXCEPT ![p] = NoOp]
  /\ attempt' = [attempt EXCEPT ![p] = 0]
  /\ stmts' = [stmts EXCEPT ![p] = 0]
  /\ probed' = [probed EXCEPT ![p] = FALSE]
  /\ result' = [result EXCEPT ![p] = NoResult]
  /\ released' = [released EXCEPT ![p] = 0]
  /\ rolled_back' = [rolled_back EXCEPT ![p] = FALSE]
  /\ faulted' = [faulted EXCEPT ![p] = FALSE]
  /\ raised' = [raised EXCEPT ![p] = NoError]
  /\ fetched' = [fetched EXCEPT ![p] = << >>]
  /\ UNCHANGED << cfg_vars, time_vars, life_vars, up, mgr_vars, init_vars, pool_vars, table_vars,
                  stores_seq, conn, pending >>

\* callers beside those modelled step by step take a connection from the
\* pool and put it back
OtherGetconn ==
  /\ ipc = "ready"
  /\ db_type = "postgresql"
  /\ PoolOpen
  /\ PoolHasRoom
  /\ others' = others + 1
  /\ UNCHANGED << cfg_vars, time_vars, fetched, life_vars, up, mgr_vars, init_vars, pools_created, pools_closed,
                  pool_used, sqlite_open, table_vars, stores_seq, caller_vars >>

OtherPutconn ==
  /\ others > 0
  /\ others' = others - 1
  /\ UNCHANGED << cfg_vars, time_vars, fetched, life_vars, up, mgr_vars, init_vars, pools_created, pools_closed,
                  pool_used, sqlite_open, table_vars, stores_seq, caller_vars >>

\* mutant: close() without its try / except
CloseOutcome_Propagates(pool, closeall_raises) ==
  IF pool = 0 THEN "nothing" ELSE IF closeall_raises THEN "raised" ELSE "closed"

\* close(): nothing to do without a pool; the except clause logs what
\* closeall() raises and close() returns all the same
CloseOutcome(pool, closeall_raises) ==
  IF pool = 0 THEN "nothing" ELSE IF closeall_raises THEN "caught" ELSE "closed"

\* ThreadedConnectionPool.closeall on a pool that is closed: PoolError
CloseallRaises == connection_pool \in pools_closed

\* mutant: close() also puts the manager on the embedded engine
Close_SwitchesEngine ==
  /\ ipc = "ready"
  /\ \A p \in Procs : pc[p] = "idle"
  /\ pools_closed' = IF connection_pool # 0
                     THEN pools_closed \cup {connection_pool} ELSE pools_closed
  /\ close_result' = CloseOutcome(connection_pool, CloseallRaises)
  /\ db_type' = "sqlite"
  /\ UNCHANGED << cfg_vars, time_vars, fetched, prior_rows, up, connection_pool, sqlite_path_set,
                  init_vars, pools_created, pool_used,
                  others, sqlite_open, table_vars, stores_seq, caller_vars >>

\* close() at shutdown, no operation running: closeall() on the pool the
\* manager refers to, whichever engine is active
Close ==
  /\ ipc = "ready"
  /\ \A p \in Procs : pc[p] = "idle"
  /\ pools_closed' = IF connection_pool # 0
                     THEN pools_closed \cup {connection_pool} ELSE pools_closed
  /\ close_result' = CloseOutcome(connection_pool, CloseallRaises)
  /\ UNCHANGED << cfg_vars, time_vars, fetched, prior_rows, up, mgr_vars, init_vars, pools_created, pool_used,
                  others, sqlite_open, table_vars, stores_seq, caller_vars >>

\* the process ends and a new one is started on the same configuration:
\* module import constructs a new DatabaseManager on the database the old
\* process left (its tables, rows and sequence stay; its pools are gone)
Restart ==
  /\ ipc = "ready"
  /\ \A p \in Procs : pc[p] = "idle"
  /\ prior_rows = -1
  /\ prior_rows' = Cardinality(stores) + Len(status_checks) + Len(summary_reports)
  /\ close_result' = "none"
  /\ db_type' = IF use_sqlite THEN "sqlite" ELSE "postgresql"
  /\ connection_pool' = 0
  /\ sqlite_path_set' = FALSE
  /\ ipc' = "init"
  /\ init_attempt' = 0
  /\ pools_created' = 0
  /\ pools_closed' = {}
  /\ pool_used' = {}
  /\ others' = 0
  /\ sqlite_open' = {}
  /\ UNCHANGED << cfg_vars, time_vars, fetched, up, table_vars, stores_seq, caller_vars >>

CallerStep(p, C) ==
  \/ StartOp(p, C)
  \/ Acquire(p)
  \/ Probe(p)
  \/ Select(p)
  \/ Insert(p)
  \/ Commit(p)
  \/ Query(p)
  \/ Sleep(p)
  \/ Return(p)

Construction ==
  \/ InitEngine
  \/ CreateTables
  \/ InitSleep
  \/ FallbackInit
  \/ FallbackTables

WriterStep(p, C) ==
  \/ StartOp(p, C)
  \/ Acquire(p)
  \/ Probe(p)
  \/ Select(p)
  \/ Insert(p)
  \/ Commit(p)
  \/ Sleep(p)
  \/ Return(p)

\* One caller at a time: every configuration, every way the construction
\* can go, every operation with every argument, and close().
Next ==
  \/ EnvChange
  \/ Construction
  \/ CallerStep(1, OpChoices)
  \/ Close

Spec == Init /\ [][Next]_vars

\* a caller thread that is inside an operation is scheduled in the end: its
\* statements, and its time.sleep, return
WriteChoices == { o \in OpChoices : o.name \in WriteOps }
RetryNext ==
  \/ EnvChange
  \/ Construction
  \/ WriterStep(1, WriteChoices)
FairSpec == Init /\ [][RetryNext]_vars /\ WF_vars(WriterStep(1, WriteChoices))

\* the engine in use fails, or recovers, while the callers are served
ServiceOutage == ipc = "ready" /\ EnvChange

\* Two processes one after the other on one database: the tables variables
\* stand for the database of the engine the configuration leads to, so the
\* engines are reachable while a manager is constructed.
RestartNext ==
  \/ ServiceOutage
  \/ Construction
  \/ WriterStep(1, WriteChoices)
  \/ Close
  \/ Restart

RestartSpec == Init /\ [][RestartNext]_vars

\* Concurrent writers: NumProcs threads interleave step by step, saving
\* status checks (of a store that is registered or not yet) and summary
\* reports, while the engine fails and recovers.
SaveChoices ==
  { o \in OpChoices :
      \/ o.name = "get_or_create_store" /\ o.sname = "Cocopan A"
      \/ o.name = "save_status_check" /\ o.response_time_ms = PyInt(150)
      \/ o.name = "save_summary_report" /\ o.total_stores = PyInt(2) }
\* the first thread registers the store and saves checks, the others save
\* checks and reports
SaveChoicesOf(p) ==
  { o \in SaveChoices :
      IF p = 1 THEN o.name # "save_summary_report" ELSE o.name # "get_or_create_store" }

SaveNext ==
  \/ ServiceOutage
  \/ Construction
  \/ \E p \in Procs : WriterStep(p, SaveChoicesOf(p))

SaveSpec == Init /\ [][SaveNext]_vars

\* Concurrent callers: NumProcs threads interleave step by step on the
\* manager the construction leaves, all of them registering stores.
ConcChoices == { o \in OpChoices : o.name = "get_or_create_store" }

ConcNext ==
  \/ ServiceOutage
  \/ Construction
  \/ \E p \in Procs : WriterStep(p, ConcChoices)

ConcSpec == Init /\ [][ConcNext]_vars

\* The pool under load: beside the NumProcs threads, any number of further
\* callers check connections out of the pool and back in.
PoolChoices ==
  { o \in OpChoices :
      \/ o.name = "get_latest_status"
      \/ o.name = "save_summary_report" /\ o.total_stores = PyInt(2) }

PoolStep(p, C) ==
  \/ StartOp(p, C)
  \/ Acquire(p)
  \/ Probe(p)
  \/ Insert(p)
  \/ Commit(p)
  \/ Query(p)
  \/ Sleep(p)
  \/ Return(p)

PoolNext ==
  \/ ServiceOutage
  \/ Construction
  \/ \E p \in Procs : PoolStep(p, PoolChoices)
  \/ OtherGetconn
  \/ OtherPutconn

PoolSpec == Init /\ [][PoolNext]_vars

\* The registration of stores on urls that carry the marker, nearly carry
\* it, or carry it in the name only.
UrlChoices ==
  { [name |-> "get_or_create_store", sname |-> a[1], url |-> a[2]] : a \in EdgeStoreArgs }

UrlNext ==
  \/ ServiceOutage
  \/ Construction
  \/ WriterStep(1, UrlChoices)

UrlSpec == Init /\ [][UrlNext]_vars

\* The two saving operations on arguments at their edges, for one store:
\* long and empty error messages, counts that do not add up.
EdgeChoices ==
  { o \in OpChoices : o.name = "get_or_create_store" /\ o.sname = "Cocopan A" }
  \cup { [name |-> "save_status_check", store_id |-> a[1], is_online |-> a[2],
          response_time_ms |-> a[3], error_message |-> a[4]] : a \in EdgeCheckArgs }
  \cup { [name |-> "save_summary_report", total_stores |-> a[1],
          online_stores |-> a[2], offline_stores |-> a[3]] : a \in EdgeSummaryArgs }

EdgeNext ==
  \/ ServiceOutage
  \/ Construction
  \/ WriterStep(1, EdgeChoices)

EdgeSpec == Init /\ [][EdgeNext]_vars

\* Writes with numbers that are not integers, and a message over the limit,
\* retried while the engine fails and recovers.
CoerceChoices ==
  { o \in OpChoices : o.name = "get_or_create_store" /\ o.sname = "Cocopan A" }
  \cup { [name |-> "save_status_check", store_id |-> 1, is_online |-> TRUE,
          response_time_ms |-> t, error_message |-> m] :
            t \in {PyInt(150), PyFloat(301, 2)}, m \in {PyNone, PyStr(Text(error_limit + 1))} }
  \cup { [name |-> "save_summary_report", total_stores |-> a[1],
          online_stores |-> a[2], offline_stores |-> a[3]] :
            a \in { <<PyInt(10), PyInt(7), PyInt(3)>>,
                    <<PyFloat(21, 2), PyInt(7), PyInt(3)>>,
                    <<PyFloat(10, 1), PyFloat(7, 1), PyFloat(3, 1)>> } }

CoerceNext ==
  \/ ServiceOutage
  \/ Construction
  \/ WriterStep(1, CoerceChoices)

CoerceSpec == Init /\ [][CoerceNext]_vars

\* time passes: the clock shows the next instant
Tick ==
  /\ \E t \in Instants : t > now
  /\ now' = Earliest({ t \in Instants : t > now })
  /\ UNCHANGED << cfg_vars, session_tz, fetched, life_vars, up, mgr_vars, init_vars,
                  pool_vars, table_vars, stores_seq, caller_vars >>

\* Stores registered, and registered again under another name, as time
\* passes.
RegisterNext ==
  \/ ServiceOutage
  \/ Construction
  \/ Tick
  \/ WriterStep(1, ConcChoices)

RegisterSpec == Init /\ [][RegisterNext]_vars

\* what the column holds of a row inserted at the instant t
StoredAt(e, tz, t) == IF e = "postgresql" THEN t + tz ELSE t

\* the rows the callers left at nondecreasing instants, in a sequence of at
\* most n rows whose columns beside the timestamp come from Columns
History(n, Columns) ==
  { [k \in 1..Len(q) |-> Columns[q[k][1]] @@ [at |-> q[k][2]]] :
      q \in { h \in UNION { [1..m -> (1..Len(Columns)) \X Instants] : m \in 0..n } :
                \A a, b \in 1..Len(h) : a < b => h[a][2] <= h[b][2] } }

\* the status checks and the summary reports of the populated database,
\* without their timestamps
CheckColumns ==
  << [store_id |-> 1, is_online |-> TRUE, response_time_ms |-> PyInt(150),
      error_message |-> PyNone],
     [store_id |-> 1, is_online |-> FALSE, response_time_ms |-> PyNone,
      error_message |-> PyNone],
     [store_id |-> 2, is_online |-> TRUE, response_time_ms |-> PyInt(150),
      error_message |-> PyNone],
     [store_id |-> 2, is_online |-> FALSE, response_time_ms |-> PyNone,
      error_message |-> PyNone] >>
ReportColumns ==
  << [total_stores |-> 10, online_stores |-> 7, offline_stores |-> 3,
      online_percentage |-> Percentage(10, 7)],
     [total_stores |-> 4, online_stores |-> 3, offline_stores |-> 1,
      online_percentage |-> Percentage(4, 3)],
     [total_stores |-> 0, online_stores |-> 0, offline_stores |-> 0,
      online_percentage |-> Percentage(0, 0)] >>

\* A manager in service on a database that earlier calls have populated:
\* either engine, the primary engine's sessions in either time zone, two
\* stores, and the status checks or the summary reports of the last days.
Populated ==
  /\ use_sqlite \in BOOLEAN
  /\ url_valid = TRUE
  /\ up = [e \in Engines |-> TRUE]
  /\ db_type = IF use_sqlite THEN "sqlite" ELSE "postgresql"
  /\ connection_pool = IF use_sqlite THEN 0 ELSE 1
  /\ sqlite_path_set = use_sqlite
  /\ ipc = "ready"
  /\ init_attempt = 0
  /\ pools_created = IF use_sqlite THEN 0 ELSE 1
  /\ pools_closed = {}
  /\ pool_used = {}
  /\ others = 0
  /\ sqlite_open = {}
  /\ schema = TRUE
  /\ session_tz \in (IF use_sqlite THEN {0} ELSE SessionOffsets)
  /\ stores = { [id |-> 1, name |-> "Cocopan A",
                 url |-> << "foodpanda", ".ph", "/coco-a" >>,
                 platform |-> "foodpanda",
                 created_at |-> StoredAt(db_type, session_tz, Earliest(Instants))],
                [id |-> 2, name |-> "Cocopan B",
                 url |-> << "food.grab", ".com", "/coco-b" >>,
                 platform |-> "grabfood",
                 created_at |-> StoredAt(db_type, session_tz, Earliest(Instants))] }
  /\ stores_seq = IF use_sqlite THEN 0 ELSE 2
  /\ \/ /\ status_checks \in
            { [k \in 1..Len(h) |->
                 [store_id |-> h[k].store_id, is_online |-> h[k].is_online,
                  response_time_ms |-> h[k].response_time_ms,
                  error_message |-> h[k].error_message,
                  checked_at |-> StoredAt(db_type, session_tz, h[k].at)]] :
                h \in History(MaxRows, CheckColumns) }
        /\ summary_reports = << >>
        /\ now \in { t \in Instants :
                       \A k \in 1..Len(status_checks) :
                         status_checks[k].checked_at <= StoredAt(db_type, session_tz, t) }
     \/ /\ status_checks = << >>
        /\ summary_reports \in
            { [k \in 1..Len(h) |->
                 [total_stores |-> h[k].total_stores,
                  online_stores |-> h[k].online_stores,
                  offline_stores |-> h[k].offline_stores,
                  online_percentage |-> h[k].online_percentage,
                  report_time |-> StoredAt(db_type, session_tz, h[k].at)]] :
                h \in History(MaxRows - 2, ReportColumns) }
        /\ now \in { t \in Instants :
                       \A k \in 1..Len(summary_reports) :
                         summary_reports[k].report_time <= StoredAt(db_type, session_tz, t) }
  /\ pc = [p \in Procs |-> "idle"]
  /\ op = [p \in Procs |-> NoOp]
  /\ attempt = [p \in Procs |-> 0]
  /\ conn = [p \in Procs |-> 0]
  /\ probed = [p \in Procs |-> FALSE]
  /\ stmts = [p \in Procs |-> 0]
  /\ pending = [p \in Procs |-> NoRow]
  /\ result = [p \in Procs |-> NoResult]
  /\ released = [p \in Procs |-> 0]
  /\ rolled_back = [p \in Procs |-> FALSE]
  /\ raised = [p \in Procs |-> NoError]
  /\ faulted = [p \in Procs |-> FALSE]
  /\ close_result = "none"
  /\ prior_rows = -1
  /\ fetched = [p \in Procs |-> << >>]

\* the read operations and the limits get_store_logs is called with
LogLimits == {1, 2}
QueryChoices ==
  [name : {"get_latest_status", "get_hourly_data", "get_store_logs", "get_daily_uptime"}]
  \cup { [name |-> "get_store_logs", limit |-> k] : k \in LogLimits }

ReaderStep(p, C) ==
  \/ StartOp(p, C)
  \/ Acquire(p)
  \/ Probe(p)
  \/ Query(p)
  \/ Return(p)

\* One caller reads from the populated database while time passes.
QueryNext ==
  \/ Tick
  \/ ReaderStep(1, QueryChoices)

QuerySpec == Populated /\ [][QueryNext]_vars

\* ------------------------------------------------------------ properties

SaveOps == {"save_status_check", "save_summary_report"}

\* the primary engine was configured and the manager runs on sqlite
FellBack == ~use_sqlite /\ db_type = "sqlite"

\* the operation p has finished gave its caller a proper result
Succeeded(p) ==
  \/ result[p].kind = "id"
  \/ result[p].kind \in {"bool", "frame", "stats"} /\ result[p].flag

\* the committed Store row an id result names
ReturnedStore(p) ==
  \E s \in stores : s.id = result[p].id /\ s.url = op[p].url

\* the row of a finished save operation is in its table
RowStored(p) ==
  LET r == NewRow(p) IN
  IF r.table = "status_checks"
  THEN \E i \in 1..Len(status_checks) : status_checks[i] = r.row
  ELSE \E i \in 1..Len(summary_reports) : summary_reports[i] = r.row

\* C1: when every attempt on the configured primary engine has failed, the
\* manager is switched to sqlite; the construction raises only if sqlite is
\* unusable too; and on the manager that fell back, every write operation
\* with well-formed arguments that the engine does not fail succeeds against
\* sqlite (no pooled connection is used).
C1_FallbackServes ==
  /\ ipc \in {"fallback", "fallback_tables"} => db_type = "sqlite"
  /\ ipc = "raised" => ~up["sqlite"]
  /\ (ipc = "ready" /\ FellBack) => schema /\ pool_used = {}
  /\ \A p \in Procs :
       ( /\ pc[p] = "done"
         /\ FellBack
         /\ op[p].name \in WriteOps
         /\ ~NormalisationRaises(op[p])
         /\ ~faulted[p] )
       => /\ Succeeded(p)
          /\ op[p].name = "get_or_create_store" => ReturnedStore(p)
          /\ op[p].name \in SaveOps => RowStored(p)

C1_Witness ==
  /\ ipc = "ready" /\ FellBack /\ url_valid
  /\ pc[1] = "done"
  /\ op[1].name = "save_status_check"
  /\ result[1] = [kind |-> "bool", id |-> 0, flag |-> TRUE, rows |-> << >>]
  /\ Len(status_checks) = 1
  /\ \E s \in stores : TRUE

\* C2: the connections checked out of the pool (or open on sqlite) are
\* exactly those of the scopes in progress; a scope that got a connection
\* has released it once, and only once, when it is left, whichever way.
C2_ReleasedOnEveryExit ==
  /\ pool_used \cup sqlite_open = { conn[q] : q \in { r \in Procs : InScope(r) } }
  /\ \A p \in Procs :
       /\ InScope(p) => conn[p] # 0 /\ released[p] = 0
       /\ ~InScope(p) => conn[p] = 0 /\ pending[p] = NoRow
       /\ pc[p] \in {"sleep", "done"} =>
            released[p] = (IF rolled_back[p] \/ Succeeded(p) THEN 1 ELSE 0)

C2_Witness ==
  /\ db_type = "postgresql"
  /\ pc[1] = "sleep"
  /\ rolled_back[1] /\ ~probed[1]
  /\ released[1] = 1
  /\ pool_used = {}

\* C3: under concurrent get_or_create_store calls the stores table never
\* holds two rows with one url (nor two rows with one id), and every id a
\* call returns is the id of the committed row of its url, so all calls
\* returning for one url return the same id.
C3_OneStorePerUrl ==
  /\ \A s, t \in stores : (s.url = t.url \/ s.id = t.id) => s = t
  /\ \A p \in Procs :
       (pc[p] = "done" /\ result[p].kind = "id") => ReturnedStore(p)
  /\ \A p, q \in Procs :
       ( /\ pc[p] = "done" /\ pc[q] = "done"
         /\ result[p].kind = "id" /\ result[q].kind = "id"
         /\ op[p].url = op[q].url )
       => result[p].id = result[q].id

C3_Witness ==
  /\ pc[1] = "done" /\ pc[2] = "done"
  /\ op[1].url = op[2].url
  /\ result[1].kind = "id" /\ result[2].kind = "id"
  /\ attempt[2] = 1 /\ ~faulted[2]
  /\ stmts[1] = 3

\* C4: a finished get_or_create_store either raised, after its last attempt,
\* or returned the id of a committed row of its url; no other operation
\* ever raises.
C4_OnlyStoreCreationRaises ==
  \A p \in Procs : pc[p] = "done" =>
    /\ result[p].kind = "raise" =>
         op[p].name = "get_or_create_store" /\ attempt[p] = max_retries - 1
    /\ op[p].name = "get_or_create_store" =>
         /\ result[p].kind \in {"raise", "id"}
         /\ result[p].kind = "id" => ReturnedStore(p)
    /\ op[p].name # "get_or_create_store" =>
         result[p].kind \in {"bool", "frame", "stats"}

C4_Witness ==
  /\ pc[1] = "done"
  /\ op[1].name = "get_or_create_store"
  /\ result[1].kind = "raise"
  /\ stores = {}

\* C5: a finished save_status_check / save_summary_report gave a boolean:
\* False only after the last attempt failed, True only after an attempt
\* ran its INSERT and its commit, the row being in the table.
C5_SavesNeverRaise ==
  \A p \in Procs : (pc[p] = "done" /\ op[p].name \in SaveOps) =>
    /\ result[p].kind = "bool"
    /\ ~result[p].flag => attempt[p] = max_retries - 1
    /\ result[p].flag =>
         /\ stmts[p] = 2 /\ ~rolled_back[p] /\ released[p] = 1
         /\ RowStored(p)

C5_Witness ==
  /\ pc[1] = "done"
  /\ op[1].name = "save_status_check"
  /\ NormalisationRaises(op[1])
  /\ result[1] = [kind |-> "bool", id |-> 0, flag |-> FALSE, rows |-> << >>]

\* C6: a finished read operation gave a table (the stats object for
\* get_database_stats), and the empty one whenever its scope failed, be it
\* at the connection, at the probe or in the query.
C6_ReadsNeverRaise ==
  \A p \in Procs : (pc[p] = "done" /\ op[p].name \in ReadOps) =>
    /\ result[p].kind = (IF op[p].name = "get_database_stats" THEN "stats" ELSE "frame")
    /\ (faulted[p] \/ rolled_back[p]) => ~result[p].flag
    /\ attempt[p] = 0

C6_Witness ==
  /\ pc[1] = "done"
  /\ op[1].name = "get_daily_uptime"
  /\ probed[1] /\ stmts[1] = 1 /\ rolled_back[1]
  /\ result[1] = [kind |-> "frame", id |-> 0, flag |-> FALSE, rows |-> << >>]

\* the steps of a caller inside an operation
Running(p) == pc[p] \in {"attempt", "probe", "select", "insert", "commit", "query", "sleep"}

\* C7: a write operation is in its first, second or third attempt; it sleeps
\* only after a failed attempt that was not the last; it gives up only after
\* the last; a step raises the attempt number only from the sleep, by one;
\* and every call that was started comes to its end.
C7_AttemptBound ==
  \A p \in Procs :
    /\ attempt[p] \in 0..(max_retries - 1)
    /\ pc[p] = "sleep" =>
         /\ op[p].name \in WriteOps
         /\ attempt[p] < max_retries - 1
         /\ ~Succeeded(p)
         /\ conn[p] = 0
    /\ (pc[p] = "done" /\ op[p].name \in WriteOps /\ ~Succeeded(p)) =>
         attempt[p] = max_retries - 1
    /\ Succeeded(p) => pc[p] = "done"

C7_BoundedRetry ==
  /\ [] C7_AttemptBound
  /\ [][\A p \in Procs :
          /\ attempt'[p] > attempt[p] => (pc[p] = "sleep" /\ attempt'[p] = attempt[p] + 1)
          /\ (pc[p] = "sleep" /\ pc'[p] # "sleep") => pc'[p] = "attempt"]_vars
  /\ \A p \in Procs : Running(p) ~> (pc[p] = "done")

C7_Witness ==
  /\ pc[1] = "done"
  /\ op[1].name = "save_summary_report"
  /\ ~NormalisationRaises(op[1])
  /\ attempt[1] = max_retries - 1
  /\ result[1] = [kind |-> "bool", id |-> 0, flag |-> FALSE, rows |-> << >>]

\* C8: a step in which a scope is left by its except clause with a
\* connection rolls back: the three tables are as before the step, the
\* uncommitted row is gone, and the connection is released.
C8_FailedScopeRollsBack ==
  [][\A p \in Procs :
       (InScope(p) /\ pc'[p] \in {"sleep", "done"} /\ rolled_back'[p])
       => /\ stores' = stores
          /\ status_checks' = status_checks
          /\ summary_reports' = summary_reports
          /\ pending'[p] = NoRow
          /\ released'[p] = 1]_vars

C8_Witness ==
  /\ pc[1] = "sleep"
  /\ op[1].name = "save_summary_report"
  /\ rolled_back[1] /\ stmts[1] = 2
  /\ summary_reports = << >>

\* C9: the probe runs on a connection that was obtained, before any
\* statement of the body; the body runs only if the probe passed; a failed
\* probe ends the scope at once, with no statement run.
C9_ProbeFirst ==
  \A p \in Procs :
    /\ pc[p] = "probe" =>
         conn[p] \in pool_used \cup sqlite_open /\ stmts[p] = 0 /\ ~probed[p]
    /\ pc[p] \in {"select", "insert", "commit", "query"} => probed[p]
    /\ stmts[p] > 0 => probed[p]

C9_ProbeBeforeBody ==
  /\ [] C9_ProbeFirst
  /\ [][\A p \in Procs :
          /\ (pc[p] # "probe" /\ pc'[p] = "probe") => (pc[p] = "attempt" /\ conn[p] = 0 /\ conn'[p] # 0)
          /\ (pc[p] = "probe" /\ pc'[p] # "probe" /\ ~probed'[p]) =>
               /\ pc'[p] \in {"sleep", "done"}
               /\ ~Succeeded(p)'
               /\ rolled_back'[p] /\ released'[p] = 1
               /\ stmts'[p] = 0]_vars

C9_Witness ==
  /\ db_type = "sqlite"
  /\ pc[1] = "done"
  /\ rolled_back[1] /\ ~probed[1] /\ stmts[1] = 0
  /\ op[1].name = "get_latest_status"

\* C10: the connections checked out of the pool, by the threads modelled
\* and by all other callers, never exceed maxconn, and no two scopes hold
\* the same connection.
C10_PoolBound ==
  /\ Cardinality(pool_used) + others <= maxconn
  /\ \A p \in Procs :
       (InScope(p) /\ db_type = "postgresql") => conn[p] \in pool_used
  /\ \A p, q \in Procs :
       (p # q /\ InScope(p) /\ InScope(q)) => conn[p] # conn[q]

C10_Witness ==
  /\ Cardinality(pool_used) + others = maxconn
  /\ InScope(1)
  /\ pc[2] = "done" /\ faulted[2] /\ ~rolled_back[2] /\ up[db_type]

\* the caller is about to ask the open pool for a connection, and every one
\* of its maxconn connections is checked out
AtCapacity(p) ==
  /\ pc[p] = "attempt"
  /\ ~NormalisationRaises(op[p])
  /\ db_type = "postgresql"
  /\ PoolOpen
  /\ ~PoolHasRoom

\* C11 as stated: a caller that asks the pool for a connection while it is
\* at capacity blocks (takes no step) until a connection is released, and is
\* not failed because of the exhaustion.
C11_BlocksAtCapacity ==
  [][\A p \in Procs : AtCapacity(p) => pc'[p] = "attempt"]_vars

\* C11 as amended: a caller that asks the pool for a connection while it is
\* at capacity does not wait; its attempt fails at once with no connection
\* held, nothing rolled back or released and the pool as it was, and the
\* operation goes on as after any failed attempt (a write sleeps and retries
\* or gives up after the last attempt, a read returns its empty result).
C11_FailsAtCapacity ==
  [][\A p \in Procs : (AtCapacity(p) /\ pc'[p] # "attempt") =>
       /\ pc'[p] = (IF op[p].name \in WriteOps /\ attempt[p] < max_retries - 1
                    THEN "sleep" ELSE "done")
       /\ pc'[p] = "done" => result'[p] = FailureResult(op[p].name)
       /\ conn'[p] = 0
       /\ ~rolled_back'[p] /\ released'[p] = 0
       /\ faulted'[p]
       /\ pool_used' = pool_used /\ others' = others]_vars

C11_Witness ==
  /\ others = maxconn
  /\ up["postgresql"]
  /\ pc[1] = "sleep"
  /\ op[1].name = "save_summary_report"
  /\ faulted[1] /\ ~rolled_back[1] /\ ~probed[1]
  /\ attempt[1] = 0

C12_AttemptsNumbered ==
  /\ init_attempt \in 0..(max_retries - 1)
  /\ ipc = "sleep" => init_attempt < max_retries - 1
  /\ (~use_sqlite /\ ipc \in {"init", "tables", "sleep"}) => db_type = "postgresql"
  /\ ipc = "tables" => (db_type = "postgresql" => connection_pool = pools_created)

\* C12: the construction on the primary engine runs attempts 1 to
\* max_retries at most, each further attempt following a failed one and the
\* sleep after it; an attempt that succeeds ends the construction with the
\* primary engine active; the engine is switched to sqlite only by the
\* failure of attempt number max_retries.
C12_InitRetries ==
  /\ [] C12_AttemptsNumbered
  /\ [][ /\ init_attempt' > init_attempt =>
              (ipc = "sleep" /\ ipc' = "init" /\ init_attempt' = init_attempt + 1)
         /\ (ipc = "sleep" /\ ipc' # "sleep") =>
              (ipc' = "init" /\ init_attempt' = init_attempt + 1)
         /\ (ipc \in {"init", "tables"} /\ ipc' = "sleep") =>
              (init_attempt < max_retries - 1 /\ db_type' = db_type)
         /\ (ipc = "tables" /\ ipc' = "ready") =>
              (db_type' = db_type /\ connection_pool' = connection_pool /\ schema')
         /\ (db_type = "postgresql" /\ db_type' = "sqlite") =>
              /\ ipc \in {"init", "tables"}
              /\ ipc' = "fallback"
              /\ init_attempt = max_retries - 1 ]_vars

C12_Witness ==
  /\ ~use_sqlite /\ url_valid
  /\ ipc = "fallback"
  /\ db_type = "sqlite"
  /\ init_attempt = max_retries - 1
  /\ pools_created = 2

\* the primary engine is configured with a connection string that does not
\* start with postgresql://
MalformedUrl == ~use_sqlite /\ ~url_valid

\* C13 as stated: on a primary connection string without the scheme prefix
\* the construction fails fatally at the first attempt: no retry delay, no
\* further attempt, no manager.
C13_MalformedUrlFatal ==
  MalformedUrl => (init_attempt = 0 /\ ipc \in {"init", "raised"})

\* C13 as amended: a primary connection string without the scheme prefix
\* fails every attempt before any connection or pool is made, and is handled
\* as every other failure of the construction: the attempt is retried after
\* the delay, and after attempt number max_retries the manager falls back to
\* sqlite, so that the construction raises only if sqlite is unusable.
C13_MalformedUrlState ==
  MalformedUrl =>
    /\ pools_created = 0 /\ connection_pool = 0 /\ pool_used = {}
    /\ ipc # "tables"
    /\ ipc \in {"init", "sleep"} => db_type = "postgresql"
    /\ ipc \in {"fallback", "fallback_tables", "ready", "raised"} => db_type = "sqlite"
    /\ ipc = "raised" => ~up["sqlite"]

C13_MalformedUrlRetried ==
  /\ [] C13_MalformedUrlState
  /\ [][ MalformedUrl =>
           /\ (ipc = "init" /\ ipc' # "init") =>
                ipc' = (IF init_attempt < max_retries - 1 THEN "sleep" ELSE "fallback")
           /\ (ipc = "sleep" /\ ipc' # "sleep") =>
                (ipc' = "init" /\ init_attempt' = init_attempt + 1)
           /\ (ipc = "fallback" /\ up["sqlite"]) => ipc' \in {"fallback", "fallback_tables"}
           /\ (ipc = "fallback_tables" /\ up["sqlite"]) =>
                ipc' \in {"fallback_tables", "ready"} ]_vars

C13_Witness ==
  /\ MalformedUrl
  /\ ipc = "ready"
  /\ db_type = "sqlite"
  /\ pc[1] = "done"
  /\ op[1].name = "get_or_create_store"
  /\ result[1].kind = "id"

\* C14: once the construction has returned (or raised), no step changes
\* db_type, whatever operation runs, fails or closes the pool; and from the
\* moment the manager has fallen back it stays on sqlite, never takes a
\* connection from a pool and never makes one.
C14_EngineFixed ==
  [][ /\ ipc \in {"ready", "raised"} => (db_type' = db_type /\ ipc' = ipc)
      /\ FellBack =>
           /\ FellBack'
           /\ pool_used' = {}
           /\ pools_created' = pools_created
           /\ connection_pool' = connection_pool ]_vars

C14_Witness ==
  /\ ~use_sqlite
  /\ ipc = "ready"
  /\ db_type = "postgresql"
  /\ close_result = "closed"
  /\ pc[1] = "done"
  /\ result[1].kind = "raise"

IsPrefix(a, b) == Len(a) <= Len(b) /\ SubSeq(b, 1, Len(a)) = a

\* C15: every step keeps every committed row of stores, status_checks and
\* summary_reports as it is (rows are only added), and the tables change
\* only in the step in which a write operation commits; reads, failures,
\* close() leave them alone.
C15_AppendOnly ==
  [][ /\ stores \subseteq stores'
      /\ IsPrefix(status_checks, status_checks')
      /\ IsPrefix(summary_reports, summary_reports')
      /\ << stores, status_checks, summary_reports >>
           # << stores', status_checks', summary_reports' >>
         => \E p \in Procs :
              /\ pc[p] = "commit" /\ pc'[p] = "done"
              /\ op[p].name \in WriteOps
              /\ Succeeded(p)'
              /\ Cardinality(stores') + Len(status_checks') + Len(summary_reports')
                   = Cardinality(stores) + Len(status_checks) + Len(summary_reports) + 1
    ]_vars

C15_Witness ==
  /\ Cardinality(stores) = 2
  /\ Len(status_checks) = 2
  /\ Len(summary_reports) = 1
  /\ pc[1] = "done"
  /\ op[1].name \in ReadOps
  /\ result[1].flag

\* the committed Store rows of the url the caller passes
StoredFor(p) ==
  IF op[p].name = "get_or_create_store"
  THEN { s \in stores : s.url = op[p].url } ELSE {}

\* C16: calls of get_or_create_store one after the other: the call that
\* inserts returns the id of the row it adds; a call for a url that has its
\* row leaves stores and the id sequence as they are in each of its steps
\* and, the engine answering its SELECT, returns after the SELECT alone the
\* id of that row; so a second call with the same url returns the id of the
\* first and there is one row.
C16_SecondCallInsertsNothing ==
  /\ [] (\A p \in Procs :
           (pc[p] = "done" /\ result[p].kind = "id") =>
              \E s \in stores : StoredFor(p) = {s} /\ result[p].id = s.id)
  /\ [][\A p \in Procs :
          /\ StoredFor(p) # {} =>
               /\ stores' = stores /\ stores_seq' = stores_seq
               /\ pc'[p] \notin {"insert", "commit"}
               /\ (pc[p] = "select" /\ pc'[p] = "done" /\ up[db_type]) =>
                    /\ result'[p].kind = "id"
                    /\ \E s \in StoredFor(p) : result'[p].id = s.id
                    /\ stmts'[p] = 1
          /\ (op[p].name = "get_or_create_store" /\ pc[p] = "commit"
                /\ pc'[p] = "done" /\ result'[p].kind = "id") =>
               \E s \in stores' \ stores :
                  /\ stores' = stores \cup {s}
                  /\ s.url = op[p].url
                  /\ result'[p].id = s.id ]_vars

C16_Witness ==
  /\ pc[1] = "done"
  /\ op[1].name = "get_or_create_store"
  /\ result[1].kind = "id"
  /\ stmts[1] = 1 /\ attempt[1] = 0
  /\ \E s \in stores : s.url = op[1].url /\ s.name # op[1].sname /\ s.id = result[1].id
  /\ Cardinality(stores) = 1

\* C17: an id that get_or_create_store returns is the id of a committed
\* Store row of the url passed; and a save_status_check for the id of a
\* committed Store row, with arguments that coerce, that the engine does
\* not fail, returns True with its row stored (on the primary engine the
\* foreign key of status_checks.store_id is satisfied).
C17_ReturnedIdUsable ==
  \A p \in Procs : pc[p] = "done" =>
    /\ (op[p].name = "get_or_create_store" /\ result[p].kind = "id") =>
         /\ result[p].id > 0
         /\ \E s \in stores :
              /\ s.id = result[p].id
              /\ s.url = op[p].url
              /\ s.platform = Platform(op[p].url)
    /\ ( /\ op[p].name = "save_status_check"
         /\ ~NormalisationRaises(op[p])
         /\ ~faulted[p]
         /\ \E s \in stores : s.id = op[p].store_id )
       => /\ result[p] = [kind |-> "bool", id |-> 0, flag |-> TRUE, rows |-> << >>]
          /\ \E i \in 1..Len(status_checks) :
               status_checks[i].store_id = op[p].store_id

C17_Witness ==
  /\ db_type = "postgresql"
  /\ pc[1] = "done"
  /\ op[1].name = "save_status_check"
  /\ op[1].store_id = 2
  /\ result[1].flag
  /\ stores_seq = 2
  /\ \E s \in stores : s.id = 2

\* C18: close() returns and never raises: with no pool (sqlite configured,
\* or no attempt on the primary engine got as far as the pool) it does
\* nothing; with an open pool it closes it; with the pool closed by an
\* earlier close() the PoolError of closeall() is caught.
C18_CloseNeverRaises ==
  /\ close_result \in {"none", "nothing", "closed", "caught"}
  /\ close_result = "nothing" => (connection_pool = 0 /\ pools_closed = {})
  /\ close_result \in {"closed", "caught"} => connection_pool \in pools_closed
  /\ close_result = "none" => pools_closed = {}
  /\ use_sqlite => close_result \in {"none", "nothing"}

C18_Witness ==
  /\ close_result = "caught"
  /\ FellBack
  /\ pools_closed = {connection_pool}
  /\ pc[1] = "done"
  /\ Succeeded(1)

\* C19: once close() has returned, every connection pool this manager
\* created during its construction is closed, also a pool made by an
\* attempt whose _create_tables then failed.
C19_AllPoolsClosed ==
  close_result # "none" => \A k \in 1..pools_created : k \in pools_closed

\* C20: the construction run again, by a later process, on the database
\* that holds the three tables and rows: _create_tables succeeds whenever
\* the engine is reachable, the tables stay, and no step of a construction
\* changes a row of stores, status_checks or summary_reports.
C20_SchemaIdempotent ==
  [][ /\ (ipc # "ready" \/ ipc' # "ready") =>
           /\ stores' = stores
           /\ status_checks' = status_checks
           /\ summary_reports' = summary_reports
           /\ stores_seq' = stores_seq
           /\ schema => schema'
      /\ (ipc \in {"tables", "fallback_tables"} /\ schema /\ up[db_type] /\ ipc' # ipc) =>
           (ipc' = "ready" /\ schema' /\ db_type' = db_type) ]_vars

C20_Witness ==
  /\ prior_rows = 5
  /\ ipc = "ready"
  /\ Cardinality(stores) = 2
  /\ Len(status_checks) = 2
  /\ Len(summary_reports) = 1
  /\ \A p \in Procs : pc[p] = "idle"

\* C21: every summary_reports row that save_summary_report inserted has
\* online_stores + offline_stores = total_stores.
C21_CountsAddUp ==
  \A i \in 1..Len(summary_reports) :
    summary_reports[i].online_stores + summary_reports[i].offline_stores
      = summary_reports[i].total_stores

\* the caller p has the result True of save_summary_report(total, online, offline)
SavedReport(p, total, online, offline) ==
  /\ pc[p] = "done"
  /\ op[p] = [name |-> "save_summary_report", total_stores |-> PyInt(total),
              online_stores |-> PyInt(online), offline_stores |-> PyInt(offline)]
  /\ result[p].kind = "bool" /\ result[p].flag

\* the ratio r is the whole number n
RatioIs(r, n) == r.den # 0 /\ r.num = n * r.den

\* C22: every stored online_percentage is online / total * 100 when total > 0
\* and 0 when total = 0, and no division by zero fails the call:
\* save_summary_report(0, 0, 0) returns True on a healthy engine and stores
\* 0, save_summary_report(10, 7, 3) stores 70.
C22_Percentage ==
  /\ \A i \in 1..Len(summary_reports) :
       LET r == summary_reports[i] IN
       /\ r.online_percentage.den # 0
       /\ r.total_stores > 0 =>
            r.online_percentage.num * r.total_stores
              = r.online_stores * 100 * r.online_percentage.den
       /\ r.total_stores = 0 => RatioIs(r.online_percentage, 0)
  /\ \A p \in Procs :
       /\ ( /\ pc[p] = "done"
            /\ op[p].name = "save_summary_report"
            /\ op[p].total_stores = PyInt(0)
            /\ ~faulted[p] )
          => result[p].flag
       /\ SavedReport(p, 0, 0, 0)
          => RatioIs(summary_reports[Len(summary_reports)].online_percentage, 0)
       /\ SavedReport(p, 10, 7, 3)
          => RatioIs(summary_reports[Len(summary_reports)].online_percentage, 70)

C22_Witness ==
  /\ SavedReport(1, 10, 7, 3)
  /\ Len(summary_reports) = 1
  /\ summary_reports[1].total_stores = 10
  /\ RatioIs(summary_reports[1].online_percentage, 70)

\* the caller p has the result True of a save_status_check call
SavedCheck(p) ==
  /\ pc[p] = "done"
  /\ op[p].name = "save_status_check"
  /\ result[p].kind = "bool" /\ result[p].flag

\* C23: the row save_status_check stored carries a message longer than 500
\* characters as its first 500 characters followed by '...', and a message
\* of at most 500 characters, or None, as it was passed.
C23_Truncation ==
  \A p \in Procs :
    SavedCheck(p) =>
      LET m == op[p].error_message
          stored == status_checks[Len(status_checks)].error_message
      IN IF m # PyNone /\ Len(m.str) > 500
         THEN /\ stored # PyNone
              /\ Len(stored.str) = 503
              /\ \A i \in 1..500 : stored.str[i] = m.str[i]
              /\ \A i \in 501..503 : stored.str[i] = "."
         ELSE stored = m

\* a message of 504 characters stored by the second attempt of the call
C23_Witness ==
  /\ SavedCheck(1)
  /\ attempt[1] = 1
  /\ op[1].error_message # PyNone
  /\ Len(op[1].error_message.str) = 504
  /\ Len(status_checks[Len(status_checks)].error_message.str) = 503

\* the pieces "foodpanda" and ".ph" stand one after the other in the url
MentionsFoodpandaPh(url) ==
  \E i \in 1..Len(url) :
    i < Len(url) /\ url[i] = "foodpanda" /\ url[i + 1] = ".ph"

\* C24: a store that get_or_create_store created has the platform
\* 'foodpanda' if its url contains 'foodpanda.ph' and 'grabfood' otherwise,
\* whatever its name says.
C24_PlatformFromUrl ==
  \A s \in stores :
    s.platform = IF MentionsFoodpandaPh(s.url) THEN "foodpanda" ELSE "grabfood"

\* a store whose name carries the marker and whose url does not, beside a
\* store whose url carries it
C24_Witness ==
  /\ \E s \in stores :
       /\ s.name = "Cocopan foodpanda.ph"
       /\ ~MentionsFoodpandaPh(s.url)
       /\ s.platform = "grabfood"
  /\ \E s \in stores :
       MentionsFoodpandaPh(s.url) /\ s.platform = "foodpanda"

\* the caller p has the frame a read operation returned from its query
Framed(p, name) ==
  /\ pc[p] = "done"
  /\ op[p].name = name
  /\ result[p].kind = "frame" /\ result[p].flag

ChecksOf(s) == { i \in 1..Len(status_checks) : status_checks[i].store_id = s.id }

\* C25: the frame of get_latest_status holds exactly one row for every store
\* that has status checks, the row of the store's greatest checked_at (also
\* when several of its checks share that checked_at), and its rows are
\* ordered by store name.
C25_OneLatestRow ==
  \A p \in Procs :
    Framed(p, "get_latest_status") =>
      LET f == result[p].rows IN
      /\ \A s \in stores :
           ChecksOf(s) # {} =>
             /\ Cardinality({ k \in 1..Len(f) : f[k].name = s.name }) = 1
             /\ \A k \in 1..Len(f) :
                  f[k].name = s.name =>
                    \A i \in ChecksOf(s) : status_checks[i].checked_at <= f[k].checked_at
      /\ \A a, b \in 1..Len(f) :
           a < b => NameRank(f[a].name) <= NameRank(f[b].name)

DayReads == {"get_hourly_data", "get_store_logs", "get_daily_uptime"}

\* the timestamps the two tables hold
Stamps ==
  { status_checks[i].checked_at : i \in 1..Len(status_checks) }
  \cup { summary_reports[i].report_time : i \in 1..Len(summary_reports) }

\* C28: when a day-filtered read has returned its frame, every stored
\* timestamp is of the current local day on the primary engine exactly when
\* it is on the embedded engine, and on the engine in use exactly when the
\* timestamp shifted by 8 hours has the date of the clock shifted by 8 hours.
C28_SameDayRule ==
  \A p \in Procs :
    (\E n \in DayReads : Framed(p, n)) =>
      \A ts \in Stamps :
        /\ CurrentDayOn("postgresql", ts) <=> CurrentDayOn("sqlite", ts)
        /\ CurrentDay(ts) <=> ((ts + 8) \div 24 = (now + 8) \div 24)

\* the instant a stored timestamp was taken at, and the calendar day and
\* the hour of day an instant has in the local time zone, UTC+8
Instant(ts) == IF db_type = "postgresql" THEN ts - session_tz ELSE ts
LocalDay(t) == (t + 8) \div 24
LocalHour(t) == (t + 8) % 24
Today(ts) == LocalDay(Instant(ts)) = LocalDay(now)

\* the step in which the query of the read operation name gives p its frame
Answered(p, name) ==
  /\ pc[p] = "query" /\ pc'[p] = "done"
  /\ op[p].name = name
  /\ result'[p].kind = "frame" /\ result'[p].flag

\* the summary reports of the current local day, and those of its hour h
ReportsToday == { i \in 1..Len(summary_reports) : Today(summary_reports[i].report_time) }
ReportsOfHour(h) ==
  { i \in ReportsToday : LocalHour(Instant(summary_reports[i].report_time)) = h }
RECURSIVE SumPoints(_)
SumPoints(f) == IF f = << >> THEN 0 ELSE Head(f).data_points + SumPoints(Tail(f))

\* C26: the frame of get_hourly_data has one bucket for every hour of the
\* current local day that has a summary report, a bucket for each such hour
\* with data_points the number of that hour's reports (two reports of one
\* local hour: one bucket of 2), and the reports of other days are in no
\* bucket.
C26_HourlyBuckets ==
  [][ \A p \in Procs :
        Answered(p, "get_hourly_data") =>
          LET f == result'[p].rows
              Hours == { h \in 0..23 : ReportsOfHour(h) # {} }
          IN /\ Len(f) = Cardinality(Hours)
             /\ \A h \in Hours :
                  \E k \in 1..Len(f) : f[k].data_points = Cardinality(ReportsOfHour(h))
             /\ SumPoints(f) = Cardinality(ReportsToday) ]_vars

\* C27: on either engine the hour of every bucket of get_hourly_data is the
\* hour of day, in UTC+8, of the reports the bucket counts.
C27_LocalHour ==
  [][ \A p \in Procs :
        Answered(p, "get_hourly_data") =>
          LET f == result'[p].rows IN
          \A k \in 1..Len(f) :
            /\ HourRank(f[k].hour) \in 0..23
            /\ Cardinality(ReportsOfHour(HourRank(f[k].hour))) = f[k].data_points ]_vars

\* the status checks of the store s in the current local day
ChecksToday(s) == { i \in ChecksOf(s) : Today(status_checks[i].checked_at) }

\* C29: the frame of get_daily_uptime has one row for every store with a
\* check in the current local day; total_checks and online_checks count the
\* store's checks of the day, 0 <= online_checks <= total_checks;
\* uptime_percentage is online_checks / total_checks * 100 rounded to the
\* nearest whole number (3 of 4: 75); the rows are in descending order of
\* uptime_percentage.
C29_DailyUptime ==
  [][ \A p \in Procs :
        Answered(p, "get_daily_uptime") =>
          LET f == result'[p].rows
              S == { s \in stores : ChecksToday(s) # {} }
          IN /\ Len(f) = Cardinality(S)
             /\ \A s \in S :
                  \E k \in 1..Len(f) :
                    /\ f[k].name = s.name
                    /\ f[k].total_checks = Cardinality(ChecksToday(s))
                    /\ f[k].online_checks =
                         Cardinality({ i \in ChecksToday(s) : status_checks[i].is_online })
             /\ \A k \in 1..Len(f) :
                  LET d == f[k].uptime_percentage * f[k].total_checks
                             - 100 * f[k].online_checks
                  IN /\ 0 <= f[k].online_checks
                     /\ f[k].online_checks <= f[k].total_checks
                     /\ 2 * d <= f[k].total_checks
                     /\ 2 * (0 - d) <= f[k].total_checks
                     /\ (f[k].online_checks = 3 /\ f[k].total_checks = 4)
                          => f[k].uptime_percentage = 75
             /\ \A a, b \in 1..Len(f) :
                  a < b => f[a].uptime_percentage >= f[b].uptime_percentage ]_vars

\* the number of rows of the frame f, and of status checks of the current
\* local day, with the timestamp t
RowsAt(f, t) == Cardinality({ k \in 1..Len(f) : f[k].checked_at = t })
ChecksAt(t) ==
  Cardinality({ i \in Joined : /\ Today(status_checks[i].checked_at)
                               /\ status_checks[i].checked_at = t })

\* C30: the frame of get_store_logs(limit) has at most limit rows (50 when
\* no limit is passed), every row is a status check of the current local
\* day, the rows are in descending order of checked_at, and no check of the
\* day that is left out is newer than a row of the frame.
C30_StoreLogs ==
  [][ \A p \in Procs :
        Answered(p, "get_store_logs") =>
          LET f == result'[p].rows
              limit == IF "limit" \in DOMAIN op[p] THEN op[p].limit ELSE 50
          IN /\ Len(f) <= limit
             /\ \A k \in 1..Len(f) :
                  /\ Today(f[k].checked_at)
                  /\ RowsAt(f, f[k].checked_at) <= ChecksAt(f[k].checked_at)
             /\ \A a, b \in 1..Len(f) : a < b => f[a].checked_at >= f[b].checked_at
             /\ \A k \in 1..Len(f) : \A t \in Stamps :
                  t > f[k].checked_at => RowsAt(f, t) = ChecksAt(t) ]_vars

\* the caller p has what get_database_stats returned
StatsDone(p) == pc[p] = "done" /\ op[p].name = "get_database_stats"

\* C31: when a statement of get_database_stats (or its scope) has failed, the
\* caller gets a dict, not an error, and the dict is the fallback: store_count
\* 0, no platforms, total_checks 0, latest_summary None, whatever the
\* statements before the failing one had fetched.
C31_AllOrNothing ==
  \A p \in Procs :
    (StatsDone(p) /\ (faulted[p] \/ ~result[p].flag)) =>
      /\ result[p].kind = "stats"
      /\ Len(result[p].rows) = 1
      /\ result[p].rows[1].store_count = 0
      /\ result[p].rows[1].platforms = << >>
      /\ result[p].rows[1].total_checks = 0
      /\ result[p].rows[1].latest_summary = PyNone

\* the engine failed the third statement, after the first two had fetched
\* the count of a store that exists and its platform
C31_Witness ==
  /\ StatsDone(1)
  /\ faulted[1]
  /\ Len(fetched[1]) = 2
  /\ fetched[1][1] = 1
  /\ DOMAIN fetched[1][2] # {}
  /\ result[1].rows[1].store_count = 0

\* C32: with the engine healthy, get_database_stats returns the number of
\* stores, the number of stores of every platform, the number of status
\* checks and the summary report of the greatest report_time (None when
\* there is none), on either engine.
C32_StatsAreReal ==
  \A p \in Procs :
    (StatsDone(p) /\ ~faulted[p]) =>
      LET d == result[p].rows[1] IN
      /\ d.store_count = Cardinality(stores)
      /\ DOMAIN d.platforms = { s.platform : s \in stores }
      /\ \A pl \in DOMAIN d.platforms :
           d.platforms[pl] = Cardinality({ s \in stores : s.platform = pl })
      /\ d.total_checks = Len(status_checks)
      /\ IF summary_reports = << >>
         THEN d.latest_summary = PyNone
         ELSE /\ d.latest_summary # PyNone
              /\ \E i \in 1..Len(summary_reports) :
                   /\ \A f \in DOMAIN summary_reports[i] :
                        d.latest_summary[f] = summary_reports[i][f]
                   /\ \A k \in 1..Len(summary_reports) :
                        summary_reports[k].report_time <= summary_reports[i].report_time


Surfaced(p) == raised[p] # NoError
ScopeStages == {"pool", "getconn", "probe"}

\* C33: every failure leaving a get_connection scope reaches the caller as one
\* error type that wraps the cause, and failures of two different sub-cases
\* (pool not initialized, no connection obtainable, probe failed) can be told
\* apart
C33_SubCasesDistinguishable ==
  \A p, q \in Procs :
    /\ Surfaced(p) => /\ raised[p].exc.class = "Exception"
                      /\ raised[p].exc.context # NoError
    /\ (/\ Surfaced(p) /\ Surfaced(q)
        /\ raised[p].stage \in ScopeStages /\ raised[q].stage \in ScopeStages
        /\ raised[p].stage # raised[q].stage)
       => raised[p].exc # raised[q].exc

\* C33, amended: the failure is a plain Exception whose text is the engine's
\* prefix followed by the stripped text of the cause; only "pool not
\* initialized" has a cause of the code's own, every other cause is the
\* driver's exception, unmarked by the step that raised it
C33_WrappedCause ==
  \A p \in Procs :
    Surfaced(p) =>
      LET e == raised[p].exc IN
      /\ e.class = "Exception"
      /\ e.text[1] = (IF db_type = "postgresql" THEN "Database connection failed: "
                      ELSE "SQLite error: ")
      /\ Len(e.text) >= 2 /\ e.text[Len(e.text)] \notin Whitespace
      /\ \E k \in 0..1 : Len(e.context.text) = Len(e.text) - 1 + k
                          /\ SubSeq(e.context.text, 1, Len(e.text) - 1) = Tail(e.text)
      /\ (raised[p].stage = "pool") <=> (e.context = PoolNotInitialized)
      /\ raised[p].stage # "pool" =>
            e.context.class \in {"PoolError", "OperationalError", "DatabaseError", "TypeError"}

C33_Witness ==
  /\ Surfaced(1) /\ Surfaced(2)
  /\ raised[1].stage = "getconn" /\ raised[2].stage = "probe"
  /\ raised[1].exc = raised[2].exc
  /\ raised[1].exc.text = << "Database connection failed: ",
                             "server closed the connection unexpectedly" >>

StoreDone(p) == pc[p] = "done" /\ op[p].name = "get_or_create_store"

\* C34: callers racing to register the same url on an engine that stays
\* available: none of them fails; a caller whose INSERT was rejected as a
\* duplicate runs the sequence again, finds the committed row with its SELECT
\* and returns that row's id
C34_RaceLoserFindsWinner ==
  \A p \in Procs :
    (StoreDone(p) /\ ~faulted[p]) =>
      /\ result[p].kind = "id"
      /\ \E s \in stores : s.url = op[p].url /\ s.id = result[p].id
      /\ attempt[p] <= 1
      /\ attempt[p] = 1 => stmts[p] = 1 /\ ~rolled_back[p]

C34_Witness ==
  /\ StoreDone(1) /\ ~faulted[1] /\ attempt[1] = 1 /\ stmts[1] = 1
  /\ result[1].kind = "id"
  /\ \E s \in stores : s.url = op[1].url /\ s.id = result[1].id /\ s.name # op[1].sname
  /\ raised[1] = NoError

ReturnsTrue(p, name) ==
  /\ op[p].name = name /\ pc[p] # "done" /\ pc'[p] = "done"
  /\ result'[p].kind = "bool" /\ result'[p].flag

SaveDone(p, name) == pc[p] = "done" /\ op[p].name = name /\ result[p].flag

\* C36: the row a write stores is the row its first attempt would have
\* stored, however many attempts failed before the one that committed: the
\* response time and the counts as integers, the message cut once, the
\* percentage that of the counts the caller passed
C36_RowIndependentOfAttempts ==
  /\ SaveDone(1, "save_status_check") =>
        LET r == status_checks[Len(status_checks)] IN
        /\ r.response_time_ms = (IF op[1].response_time_ms = PyNone THEN PyNone
                                 ELSE ToInt(op[1].response_time_ms))
        /\ r.error_message = Truncate(op[1].error_message)
        /\ r.is_online = op[1].is_online
  /\ SaveDone(1, "save_summary_report") =>
        LET r == summary_reports[Len(summary_reports)]
            first == PercentageAt(op[1], 0)
        IN /\ r.total_stores = ToInt(op[1].total_stores).int
           /\ r.online_stores = ToInt(op[1].online_stores).int
           /\ r.offline_stores = ToInt(op[1].offline_stores).int
           /\ r.online_percentage.num * first.den = first.num * r.online_percentage.den

CheckDone(p) ==
  /\ pc[p] = "done" /\ op[p].name = "save_status_check"
  /\ ~faulted[p] /\ ~NormalisationRaises(op[p])
Referenced(id) == \E s \in stores : s.id = id

\* C37: a status check of a store id that no Store has is refused by the
\* primary engine (False after the retries, nothing inserted) and stored by
\* the embedded engine (True); a status check of an existing Store is stored
\* by both
C37_ForeignKeyByEngine ==
  /\ db_type = "postgresql" =>
        \A i \in 1..Len(status_checks) : Referenced(status_checks[i].store_id)
  /\ \A p \in Procs :
        CheckDone(p) =>
          IF ~Referenced(op[p].store_id) /\ db_type = "postgresql"
          THEN ~result[p].flag /\ attempt[p] = max_retries - 1
          ELSE /\ result[p].flag
               /\ Len(status_checks) > 0
               /\ status_checks[Len(status_checks)].store_id = op[p].store_id

C37_Witness ==
  /\ CheckDone(1) /\ db_type = "postgresql" /\ ~Referenced(op[1].store_id)
  /\ ~result[1].flag /\ attempt[1] = max_retries - 1 /\ rolled_back[1]
  /\ stores # {} /\ status_checks = << >>

C37_WitnessEmbedded ==
  /\ CheckDone(1) /\ db_type = "sqlite" /\ ~Referenced(op[1].store_id)
  /\ result[1].flag /\ Len(status_checks) = 1

\* C38: get_or_create_store for a url that has its row under another name:
\* no step of the call changes the stores table (the row keeps its name, its
\* platform and its created_at, no row is added), and the call, when the
\* engine answers its SELECT, returns the id of that row
C38_ExistingRowUntouched ==
  [][\A p \in Procs : \A s \in stores :
       (/\ op[p].name = "get_or_create_store"
        /\ s.url = op[p].url /\ s.name # op[p].sname) =>
          /\ stores' = stores
          /\ pc'[p] \notin {"insert", "commit"}
          /\ (pc[p] = "select" /\ pc'[p] = "done" /\ up[db_type]) =>
               /\ result'[p].kind = "id" /\ result'[p].id = s.id ]_vars

C38_Witness ==
  /\ StoreDone(1) /\ op[1].sname = "Cocopan B" /\ result[1].kind = "id"
  /\ \E s \in stores :
       /\ s.id = result[1].id /\ s.url = op[1].url
       /\ s.name = "Cocopan A" /\ s.platform = "foodpanda"
       /\ s.created_at < StoredNow
  /\ Cardinality(stores) = 1

\* C39: in every bucket of get_hourly_data the two rounded percentages add up
\* to 100
C39_PercentagesAddUp ==
  [][ \A p \in Procs :
        Answered(p, "get_hourly_data") =>
          \A k \in 1..Len(result'[p].rows) :
            result'[p].rows[k].online_pct + result'[p].rows[k].offline_pct = 100 ]_vars
====
